---- MODULE Spec2Model ----
(***************************************************************************)
(* Model of the respondent submission wizard of nr01facil                  *)
(* (ciss_gestao/views.py, CampaignAccessView) and of the Response Store    *)
(* (apps/core/models.py, CampaignResponse).                                *)
(*                                                                         *)
(* Text is a sequence of atoms: a one-character string (a digit, a sign,   *)
(* a blank " ", a punctuation mark) or a word without blanks.  strip(),    *)
(* re.sub(r'\D', '', .), str.isdigit() and int() are computed on it.       *)
(* None is the empty set and an integer n held in an optional field is     *)
(* {n}.  A dict is a function; the empty dict is the empty function.       *)
(***************************************************************************)
EXTENDS Integers, Sequences, FiniteSets, TLC

VARIABLES
    campaign,    \* company, title, start_date and end_date of every campaign
    plans,       \* the standard_action_plans rows of every company
    status,      \* Campaign.status of every campaign
    assessment,  \* campaign.company.assessment_type of every campaign
    store,       \* the campaign_responses table: rows in insertion order
    session,     \* request.session['campaign_response'] of every browser session
    inflight,    \* a step-9 request between its session write and its insert
    last         \* the request handled last and the response it was given

vars == <<campaign, plans, status, assessment, store, session, inflight, last>>

\* ------------------------------------------------------------------ text

Digit == {"0", "1", "2", "3", "4", "5", "6", "7", "8", "9"}

DigitValue(ch) ==
    CASE ch = "0" -> 0 [] ch = "1" -> 1 [] ch = "2" -> 2 [] ch = "3" -> 3
      [] ch = "4" -> 4 [] ch = "5" -> 5 [] ch = "6" -> 6 [] ch = "7" -> 7
      [] ch = "8" -> 8 [] ch = "9" -> 9

\* str.strip(): blanks removed at both ends, kept inside
RECURSIVE LStrip(_)
LStrip(t) == IF t # <<>> /\ Head(t) = " " THEN LStrip(Tail(t)) ELSE t

RECURSIVE RStrip(_)
RStrip(t) ==
    IF t # <<>> /\ t[Len(t)] = " " THEN RStrip(SubSeq(t, 1, Len(t) - 1)) ELSE t

Strip(t) == RStrip(LStrip(t))

\* re.sub(r'\D', '', t)
OnlyDigits(t) == SelectSeq(t, LAMBDA ch : ch \in Digit)

\* str.isdigit(): non-empty and every character a digit
IsDigit(t) == t # <<>> /\ \A i \in 1..Len(t) : t[i] \in Digit

RECURSIVE DigitsToInt(_)
DigitsToInt(t) ==
    IF t = <<>> THEN 0
    ELSE 10 * DigitsToInt(SubSeq(t, 1, Len(t) - 1)) + DigitValue(t[Len(t)])

\* int(t) succeeds on an optional sign followed by digits, else ValueError
IntParses(t) ==
    \/ IsDigit(t)
    \/ t # <<>> /\ Head(t) \in {"+", "-"} /\ IsDigit(Tail(t))

ToInt(t) ==
    IF Head(t) = "-" THEN 0 - DigitsToInt(Tail(t))
    ELSE IF Head(t) = "+" THEN DigitsToInt(Tail(t))
    ELSE DigitsToInt(t)

None == {}
Some(n) == {n}

\* int(t) if t else None
IntOrNone(t) == IF t # <<>> THEN Some(ToInt(t)) ELSE None

EmptyDict == [k \in {} |-> <<>>]

\* d[k] = v on a dict
DictSet(d, k, v) == [x \in DOMAIN d \cup {k} |-> IF x = k THEN v ELSE d[x]]

\* ------------------------------------------------------- question catalog

BlockSteps == 2..8

StepKey(n) ==
    CASE n = 2 -> "step2" [] n = 3 -> "step3" [] n = 4 -> "step4"
      [] n = 5 -> "step5" [] n = 6 -> "step6" [] n = 7 -> "step7"
      [] n = 8 -> "step8"

\* the number of questions of each block's context
QuestionCount(n) ==
    CASE n = 2 -> 8 [] n = 3 -> 6 [] n = 4 -> 5 [] n = 5 -> 4
      [] n = 6 -> 4 [] n = 7 -> 5 [] n = 8 -> 3

\* the question texts of block n, in order: the i-th is named <<n, i>>
Questions(n) == [i \in 1..QuestionCount(n) |-> <<n, i>>]

\* ------------------------------------------------------------ the store

CpfLen == 11

hash_cpf(c, cpf_digits) == <<c, cpf_digits>>

\* CampaignResponse.all_objects.filter(campaign=c, cpf_hash=h).exists()
ExistsResponse(rows, c, h) ==
    \E i \in 1..Len(rows) : rows[i].campaign = c /\ rows[i].cpf_hash = h

\* the table without core_campaign_response_unique_cpf_per_campaign
NoUniqueConstraint(rows, row) == TRUE

\* the UniqueConstraint on (campaign, cpf_hash): may this row be inserted?
UniqueCpfPerCampaign(rows, row) ==
    \A i \in 1..Len(rows) :
        ~(rows[i].campaign = row.campaign /\ rows[i].cpf_hash = row.cpf_hash)

\* ---------------------------------------------------------- the session

NoData == [absent |-> TRUE]

get_session_data(sess, c) == sess[c]

\* a session write that is lost
StoreNothing(sess, c, data) == sess

store_session_data(sess, c, data) == [sess EXCEPT ![c] = data]

\* a session whose in-progress state is never removed
KeepSessionData(sess, c) == sess

\* a commit that drops the in-progress states of all campaigns
ClearWholeSession(sess, c) == [k \in DOMAIN sess |-> NoData]

clear_session_data(sess, c) == [sess EXCEPT ![c] = NoData]

\* ------------------------------------------------------ the status guard

ACTIVE == "ACTIVE"
PLANNED == "PLANNED"
PAUSED == "PAUSED"
FINISHED == "FINISHED"
Status == {PLANNED, ACTIVE, PAUSED, FINISHED}

\* a guard that forgets the finished campaigns
GuardWithoutFinished(st) == st = PAUSED \/ st = PLANNED

\* the guard at the head of get and post: is a terminal view rendered?
StatusGuard(st) == st = PAUSED \/ st = PLANNED \/ st = FINISHED

\* the template rendered for a campaign that is not active
StatusView(st) ==
    CASE st = PAUSED -> "paused" [] st = PLANNED -> "planned" [] st = FINISHED -> "finished"

\* a grouping mode that is the broad-unit one for every tenant
GheWhateverMode(c) == TRUE

\* use_ghe = assessment_type != 'SETOR'
UseGhe(c) == assessment[c] # "SETOR"

\* The request handled and its response, as `last` records them: the session
\* and campaign, the method and step, whether a server-held state existed and
\* a local_payload was sent, the view or redirect answered (`to` its step),
\* the error messages shown, whether the database worked on an insert,
\* whether the commit directly follows one of the same session that failed
\* on a storage error, and the aggregation result a report was given.
Handled(s, c, op, step, held, payload, result, to) ==
    [sess |-> s, camp |-> c, op |-> op, step |-> step, held |-> held,
     payload |-> payload, result |-> result, to |-> to, msg |-> {}, db |-> "unused",
     retry |-> FALSE, out |-> NoData]

\* the last request was a commit of session s that failed on a storage error
StorageFailed(s) ==
    /\ last.sess = s /\ last.op = "create"
    /\ last.result = "error400" /\ last.db = "down"

\* -------------------------------------------------------- step 1: identity

\* an age check that lets zero through
AgeNotNumeric(age) == ~IsDigit(age)

\* not age.isdigit() or int(age) <= 0
AgeInvalid(age) == ~IsDigit(age) \/ ToInt(age) <= 0

\* the messages step 1 collects in `errors` for the posted form
Step1Errors(form, c, rows) ==
    LET cpf_digits == OnlyDigits(Strip(form.cpf))
        age == Strip(form.age)
        ghe_id == Strip(form.ghe_id)
        department_id == Strip(form.department_id)
        job_function_id == Strip(form.job_function_id)
        cpf_hash == IF cpf_digits # <<>> THEN hash_cpf(c, cpf_digits) ELSE <<>>
    IN  (IF Len(cpf_digits) # CpfLen THEN {"CPF invalido."} ELSE {})
        \cup (IF AgeInvalid(age) THEN {"Idade invalida."} ELSE {})
        \cup (IF UseGhe(c)
              THEN (IF ghe_id = <<>> THEN {"Informe o GHE."} ELSE {})
                   \cup (IF department_id = <<>> THEN {"Informe o cargo/funcao."} ELSE {})
              ELSE (IF department_id = <<>> THEN {"Informe o setor."} ELSE {})
                   \cup (IF job_function_id = <<>> THEN {"Informe o cargo/funcao."} ELSE {}))
        \cup (IF cpf_hash # <<>> /\ ExistsResponse(rows, c, cpf_hash)
              THEN {"Este CPF ja foi utilizado nesta avaliacao."} ELSE {})

\* does building the in-progress state of step 1 raise ValueError in int()?
Step1Raises(form, c) ==
    LET ghe_id == IF UseGhe(c) THEN Strip(form.ghe_id) ELSE <<>>
        department_id == Strip(form.department_id)
        job_function_id == Strip(form.job_function_id)
    IN  \/ ghe_id # <<>> /\ ~IntParses(ghe_id)
        \/ ~IntParses(department_id)
        \/ job_function_id # <<>> /\ ~IntParses(job_function_id)

\* the in-progress state step 1 opens for an accepted form
Step1Data(form, c) ==
    LET ghe_id == IF UseGhe(c) THEN Strip(form.ghe_id) ELSE <<>>
        job_function_id == Strip(form.job_function_id)
    IN  [cpf_hash |-> hash_cpf(c, OnlyDigits(Strip(form.cpf))),
         first_name |-> Strip(form.first_name),
         age |-> ToInt(Strip(form.age)),
         sex |-> Strip(form.sex),
         ghe_id |-> IntOrNone(ghe_id),
         department_id |-> Some(ToInt(Strip(form.department_id))),
         job_function_id |-> IntOrNone(job_function_id),
         responses |-> EmptyDict,
         comments |-> <<>>]

\* POST step=1
PostStep1(s, c, form) ==
    /\ inflight[s] = NoData
    /\ UNCHANGED <<campaign, plans, status, assessment, store, inflight>>
    /\ LET held == get_session_data(session[s], c) # NoData
       IN  IF StatusGuard(status[c])
           THEN /\ last' = Handled(s, c, "post", 1, held, FALSE, StatusView(status[c]), 0)
                /\ UNCHANGED session
           ELSE IF Step1Errors(form, c, store) # {}
           THEN /\ last' = [Handled(s, c, "post", 1, held, FALSE, "invalid400", 1)
                              EXCEPT !.msg = Step1Errors(form, c, store)]
                /\ UNCHANGED session
           ELSE IF Step1Raises(form, c)
           THEN /\ last' = Handled(s, c, "post", 1, held, FALSE, "error500", 0)
                /\ UNCHANGED session
           ELSE /\ session' = [session EXCEPT
                                 ![s] = store_session_data(@, c, Step1Data(form, c))]
                /\ last' = Handled(s, c, "post", 1, held, FALSE, "redirect", 2)

\* ------------------------------------------------- steps 2..8: the blocks

\* a collection that records blank answers instead of giving up
CollectBlanks(posted, questions) ==
    [i \in 1..Len(questions) |-> [question |-> questions[i], answer |-> Strip(posted[i])]]

\* the answers collected for the questions, or NoData (None) when one is empty
collect_answers(posted, questions) ==
    IF \E i \in 1..Len(questions) : Strip(posted[i]) = <<>>
    THEN NoData
    ELSE [i \in 1..Len(questions) |->
            [question |-> questions[i], answer |-> Strip(posted[i])]]

\* POST step=n for n in 2..8; posted[i] is the field q<i> ('' when not sent)
PostBlock(s, c, n, posted) ==
    /\ inflight[s] = NoData
    /\ UNCHANGED <<campaign, plans, status, assessment, store, inflight>>
    /\ LET session_data == get_session_data(session[s], c)
           held == session_data # NoData
           answers == collect_answers(posted, Questions(n))
       IN  IF StatusGuard(status[c])
           THEN /\ last' = Handled(s, c, "post", n, held, FALSE, StatusView(status[c]), 0)
                /\ UNCHANGED session
           ELSE IF session_data = NoData
           THEN /\ last' = Handled(s, c, "post", n, held, FALSE, "restart", 1)
                /\ UNCHANGED session
           ELSE IF answers = NoData
           THEN /\ last' = Handled(s, c, "post", n, held, FALSE, "again400", n)
                /\ UNCHANGED session
           ELSE /\ session' = [session EXCEPT ![s] = store_session_data(@, c,
                        [session_data EXCEPT
                           !.responses = DictSet(@, StepKey(n), answers)])]
                /\ last' = Handled(s, c, "post", n, held, FALSE, "redirect", n + 1)

\* ------------------------------------------------- step 9: the commit

Raised == [raised |-> TRUE]

\* a JSON object without any key: what json.loads gives for '{}'
EmptyMeta ==
    [cpf |-> <<>>, age |-> <<>>, ghe_id |-> <<>>, department_id |-> <<>>,
     job_function_id |-> <<>>, first_name |-> <<>>, sex |-> <<>>]

EmptyPayload ==
    [t |-> "dict", meta |-> EmptyMeta, responses |-> [t |-> "none"], comments |-> <<>>]

\* payload = json.loads(local_payload), {} on JSONDecodeError
json_loads(local_payload) ==
    IF local_payload.raw = "json" THEN local_payload.value ELSE EmptyPayload

\* a group check that asks for the department only
MissingDepartment(use_ghe, ghe_id, department_id, job_function_id) ==
    department_id = <<>>

\* the group fields the grouping mode requires are not all given
MissingGroup(use_ghe, ghe_id, department_id, job_function_id) ==
    IF use_ghe
    THEN ghe_id = <<>> \/ department_id = <<>>
    ELSE department_id = <<>> \/ job_function_id = <<>>

\* the in-progress state rebuilt from the client's payload: NoData for None,
\* Raised when int() raises ValueError
build_session_from_payload(payload, c, rows) ==
    IF payload.t # "dict" THEN NoData
    ELSE
    LET meta == payload.meta
        cpf_digits == OnlyDigits(Strip(meta.cpf))
        age == Strip(meta.age)
        department_id == Strip(meta.department_id)
        ghe_id == IF UseGhe(c) THEN Strip(meta.ghe_id) ELSE <<>>
        job_function_id == IF UseGhe(c) THEN <<>> ELSE Strip(meta.job_function_id)
        cpf_hash == hash_cpf(c, cpf_digits)
    IN  IF Len(cpf_digits) # CpfLen THEN NoData
        ELSE IF AgeInvalid(age) THEN NoData
        ELSE IF MissingGroup(UseGhe(c), Strip(meta.ghe_id), department_id,
                             Strip(meta.job_function_id))
        THEN NoData
        ELSE IF ExistsResponse(rows, c, cpf_hash) THEN NoData
        ELSE IF \/ ghe_id # <<>> /\ ~IntParses(ghe_id)
                \/ ~IntParses(department_id)
                \/ job_function_id # <<>> /\ ~IntParses(job_function_id)
        THEN Raised
        ELSE [cpf_hash |-> cpf_hash,
              first_name |-> Strip(meta.first_name),
              age |-> ToInt(age),
              sex |-> Strip(meta.sex),
              ghe_id |-> IntOrNone(ghe_id),
              department_id |-> IntOrNone(department_id),
              job_function_id |-> IntOrNone(job_function_id),
              responses |-> IF payload.responses.t = "dict"
                            THEN payload.responses.v ELSE EmptyDict,
              comments |-> Strip(payload.comments)]

\* a merge that never takes the payload's answers
KeepStateResponses(session_data, payload) == session_data

\* the payload's answers replace the state's when they are a non-empty dict
PayloadResponses(session_data, payload) ==
    IF payload.t = "dict" /\ payload.responses.t = "dict"
       /\ payload.responses.v # EmptyDict
    THEN [session_data EXCEPT !.responses = payload.responses.v]
    ELSE session_data

\* the payload's comment replaces the state's when the posted one is blank
PayloadComments(session_data, payload, comments) ==
    IF Strip(comments) = <<>>
    THEN [session_data EXCEPT
            !.comments = Strip(IF payload.t = "dict" THEN payload.comments ELSE <<>>)]
    ELSE session_data

\* the posted comment alone
PostedCommentOnly(session_data, comments) == Strip(comments)

\* (request.POST.get('comments') or session_data.get('comments') or '').strip()
FinalComments(session_data, comments) ==
    Strip(IF comments # <<>> THEN comments ELSE session_data.comments)

\* session_data as step 9 writes it to the session before the insert:
\* NoData when the respondent is sent back to restart, Raised on ValueError
Step9Data(session_data, comments, local_payload, c, rows) ==
    LET payload == json_loads(local_payload)
        sent == local_payload.raw # "empty"
        got == IF sent /\ session_data = NoData
               THEN build_session_from_payload(payload, c, rows)
               ELSE session_data
    IN  IF got = NoData \/ got = Raised THEN got
        ELSE LET merged == IF sent
                           THEN PayloadComments(PayloadResponses(got, payload),
                                                payload, comments)
                           ELSE got
             IN  [merged EXCEPT !.comments = FinalComments(merged, comments)]

\* the row CampaignResponse.all_objects.create(...) is asked to insert
ResponseRow(c, session_data) ==
    [campaign |-> c,
     cpf_hash |-> session_data.cpf_hash,
     first_name |-> session_data.first_name,
     age |-> session_data.age,
     sex |-> session_data.sex,
     ghe_id |-> session_data.ghe_id,
     department_id |-> session_data.department_id,
     job_function_id |-> session_data.job_function_id,
     responses |-> session_data.responses,
     comments |-> session_data.comments]

\* POST step=9 up to the session write; the insert follows in CreateResponse
PostStep9(s, c, comments, local_payload) ==
    /\ inflight[s] = NoData
    /\ UNCHANGED <<campaign, plans, status, assessment, store>>
    /\ LET session_data == get_session_data(session[s], c)
           held == session_data # NoData
           sent == local_payload.raw # "empty"
           data == Step9Data(session_data, comments, local_payload, c, store)
       IN  IF StatusGuard(status[c])
           THEN /\ last' = Handled(s, c, "post", 9, held, sent, StatusView(status[c]), 0)
                /\ UNCHANGED <<session, inflight>>
           ELSE IF data = NoData
           THEN /\ last' = Handled(s, c, "post", 9, held, sent, "restart", 1)
                /\ UNCHANGED <<session, inflight>>
           ELSE IF data = Raised
           THEN /\ last' = Handled(s, c, "post", 9, held, sent, "error500", 0)
                /\ UNCHANGED <<session, inflight>>
           ELSE /\ session' = [session EXCEPT ![s] = store_session_data(@, c, data)]
                /\ inflight' = [inflight EXCEPT
                                  ![s] = [camp |-> c, row |-> ResponseRow(c, data),
                                          held |-> held, payload |-> sent,
                                          retry |-> StorageFailed(s)]]
                /\ last' = [Handled(s, c, "post", 9, held, sent, "creating", 9)
                              EXCEPT !.retry = StorageFailed(s)]

\* the rest of POST step=9: the insert, which the database refuses on a
\* duplicate (campaign, cpf_hash) or on a storage error (works = FALSE)
CreateResponse(s, works) ==
    /\ inflight[s] # NoData
    /\ UNCHANGED <<campaign, plans, status, assessment>>
    /\ inflight' = [inflight EXCEPT ![s] = NoData]
    /\ LET c == inflight[s].camp
           row == inflight[s].row
       IN  IF works /\ UniqueCpfPerCampaign(store, row)
           THEN /\ store' = Append(store, row)
                /\ session' = [session EXCEPT ![s] = clear_session_data(@, c)]
                /\ last' = [Handled(s, c, "create", 9, inflight[s].held,
                                    inflight[s].payload, "redirect", 10)
                              EXCEPT !.db = "up", !.retry = inflight[s].retry]
           ELSE /\ UNCHANGED <<store, session>>
                /\ last' = [Handled(s, c, "create", 9, inflight[s].held,
                                    inflight[s].payload, "error400", 9)
                              EXCEPT !.db = IF works THEN "up" ELSE "down",
                                     !.retry = inflight[s].retry]

\* POST with a step that is none of 1..9
PostInvalidStep(s, c) ==
    /\ inflight[s] = NoData
    /\ UNCHANGED <<campaign, plans, status, assessment, store, session, inflight>>
    /\ last' = Handled(s, c, "post", 0, get_session_data(session[s], c) # NoData, FALSE,
                       IF StatusGuard(status[c]) THEN StatusView(status[c]) ELSE "restart",
                       IF StatusGuard(status[c]) THEN 0 ELSE 1)

\* GET ?step=<step>
Get(s, c, step) ==
    /\ inflight[s] = NoData
    /\ UNCHANGED <<campaign, plans, status, assessment, store, session, inflight>>
    /\ LET st == Strip(step)
           held == get_session_data(session[s], c) # NoData
       IN  last' =
             IF StatusGuard(status[c])
             THEN Handled(s, c, "get", 0, held, FALSE, StatusView(status[c]), 0)
             ELSE IF st = <<"1", "0">>
             THEN Handled(s, c, "get", 10, held, FALSE, "step10", 10)
             ELSE Handled(s, c, "get", 0, held, FALSE, "wizard",
                          IF IsDigit(st) /\ 1 <= ToInt(st) /\ ToInt(st) <= 9
                          THEN ToInt(st) ELSE 1)

\* CampaignForm.is_valid: a title that is not blank and a period that does
\* not end before it starts
CampaignFormValid(form) ==
    /\ Strip(form.title) # <<>>
    /\ form.start_date <= form.end_date

\* the company, title and period CampaignUpdateView.post assigns to the
\* campaign before it saves it
SavedCampaign(form) ==
    [company |-> form.company_id, title |-> Strip(form.title),
     start_date |-> form.start_date, end_date |-> form.end_date]

\* CampaignUpdateView.post: an invalid form changes nothing; a valid one is
\* saved, unless it finishes the campaign while the number of Responses
\* differs from the employee count of the form's company (total_workers)
\* and force_finish is not sent.  The grouping mode follows the company: it
\* stays when the company does, and is the other company's when not.
CampaignUpdate(c, form, force_finish, total_workers) ==
    /\ UNCHANGED <<plans, store, session, inflight>>
    /\ LET new_status == form.status
           responses_count ==
               Cardinality({i \in 1..Len(store) : store[i].campaign = c})
           refused == /\ new_status = FINISHED
                      /\ responses_count # total_workers
                      /\ ~force_finish
           saved == SavedCampaign(form)
       IN  IF ~CampaignFormValid(form)
           THEN /\ UNCHANGED <<campaign, status, assessment>>
                /\ last' = Handled("admin", c, "update", 0, FALSE, FALSE, "invalid", 0)
           ELSE IF refused
           THEN /\ UNCHANGED <<campaign, status, assessment>>
                /\ last' = Handled("admin", c, "update", 0, FALSE, FALSE, "refused", 0)
           ELSE /\ status' = [status EXCEPT ![c] = new_status]
                /\ campaign' = [campaign EXCEPT ![c] = saved]
                /\ \E mode \in IF saved.company = campaign[c].company
                                THEN {assessment[c]} ELSE {"GHE", "SETOR"} :
                      assessment' = [assessment EXCEPT ![c] = mode]
                /\ last' = Handled("admin", c, "update", 0, FALSE, FALSE, "saved", 0)

\* the form that edits the status of campaign c alone
StatusForm(c, new_status) ==
    [company_id |-> campaign[c].company, title |-> campaign[c].title,
     start_date |-> campaign[c].start_date, end_date |-> campaign[c].end_date,
     status |-> new_status]

\* ------------------------------------------------------------ aggregation

\* a scale that scores a label it does not know as the lowest one
ScoreUnknownAsLowest(answer) ==
    CASE answer = <<"Raramente">> -> 2
      [] answer = <<"As vezes">> -> 3
      [] answer = <<"Frequentemente">> -> 4
      [] answer = <<"Sempre">> -> 5
      [] OTHER -> 1

\* ANSWER_SCORE.get(label): 0 stands for None, an answer that is not scored
ANSWER_SCORE(answer) ==
    CASE answer = <<"Nunca">> -> 1
      [] answer = <<"Raramente">> -> 2
      [] answer = <<"As vezes">> -> 3
      [] answer = <<"Frequentemente">> -> 4
      [] answer = <<"Sempre">> -> 5
      [] OTHER -> 0

\* the keys of DOMAIN_BY_STEP
DOMAIN_BY_STEP == {StepKey(n) : n \in BlockSteps}

\* offsets that let step3 start at the last number of step2
OverlappingOffsets(key) ==
    CASE key = "step2" -> 0 [] key = "step3" -> 7 [] key = "step4" -> 14
      [] key = "step5" -> 19 [] key = "step6" -> 23 [] key = "step7" -> 27
      [] key = "step8" -> 32

STEP_OFFSETS(key) ==
    CASE key = "step2" -> 0 [] key = "step3" -> 8 [] key = "step4" -> 14
      [] key = "step5" -> 19 [] key = "step6" -> 23 [] key = "step7" -> 27
      [] key = "step8" -> 32

\* the question texts of a domain, in catalog order
STEP_QUESTIONS(key) ==
    CASE key = "step2" -> Questions(2) [] key = "step3" -> Questions(3)
      [] key = "step4" -> Questions(4) [] key = "step5" -> Questions(5)
      [] key = "step6" -> Questions(6) [] key = "step7" -> Questions(7)
      [] key = "step8" -> Questions(8)

\* use_departments of the campaign's company
UseDepartments(c) == assessment[c] = "SETOR"

\* the group id field an aggregation run of the campaign's tenant keys by
GroupIdField(c) == IF UseDepartments(c) THEN "department_id" ELSE "ghe_id"

\* getattr(response, group_id_field): {} for None, {id} otherwise
GroupId(row, group_id_field) ==
    IF group_id_field = "department_id" THEN row.department_id ELSE row.ghe_id

\* `if group_id:` holds for an id that is neither None nor 0
HasGroup(row, group_id_field) ==
    GroupId(row, group_id_field) \notin {None, Some(0)}

\* the positions <<r, key, i>> the loops visit: answer i of the list under
\* a domain's key in the answer map of response r
AnswerPositions(rows) ==
    UNION {UNION {{<<r, key, i>> : i \in 1..Len(rows[r].responses[key])} :
                    key \in DOMAIN rows[r].responses \cap DOMAIN_BY_STEP} :
             r \in 1..Len(rows)}

\* the score looked up for the answer at a position
ScoreAt(rows, h) == ANSWER_SCORE(rows[h[1]].responses[h[2]][h[3]].answer)

\* a {'sum': .., 'count': ..} accumulator after the scored positions H were
\* added to it
Totals(rows, H) ==
    [sum |-> Cardinality({h \in H : ScoreAt(rows, h) = 1})
             + 2 * Cardinality({h \in H : ScoreAt(rows, h) = 2})
             + 3 * Cardinality({h \in H : ScoreAt(rows, h) = 3})
             + 4 * Cardinality({h \in H : ScoreAt(rows, h) = 4})
             + 5 * Cardinality({h \in H : ScoreAt(rows, h) = 5}),
     count |-> Cardinality(H)]

\* _build_results: every answer of a domain's list that has a score
ResultsScored(rows) == {h \in AnswerPositions(rows) : ScoreAt(rows, h) # 0}

\* the accumulators of _build_results after the scored positions H were
\* added to them
ResultsTotalsOver(rows, H, group_id_field) ==
    LET grouped == {h \in H : HasGroup(rows[h[1]], group_id_field)}
        gid(h) == CHOOSE g \in GroupId(rows[h[1]], group_id_field) : TRUE
        groups(key) == {gid(h) : h \in {x \in grouped : x[2] = key}}
    IN  [overall |-> Totals(rows, H),
         domain_totals |->
            [key \in DOMAIN_BY_STEP |-> Totals(rows, {h \in H : h[2] = key})],
         question_totals |->
            [key \in DOMAIN_BY_STEP |->
               [i \in 1..Len(STEP_QUESTIONS(key)) |->
                  Totals(rows, {h \in H : h[2] = key /\ h[3] = i})]],
         group_totals |->
            [key \in DOMAIN_BY_STEP |->
               [g \in groups(key) |->
                  Totals(rows, {h \in grouped : h[2] = key /\ gid(h) = g})]],
         group_question_totals |->
            [key \in DOMAIN_BY_STEP |->
               [g \in groups(key) |->
                  [i \in 1..Len(STEP_QUESTIONS(key)) |->
                     Totals(rows, {h \in grouped :
                                     h[2] = key /\ gid(h) = g /\ h[3] = i})]]]]

\* accumulators fed only by the responses that carry a group id
GroupedOnlyTotals(rows, group_id_field) ==
    ResultsTotalsOver(rows, {h \in ResultsScored(rows) : HasGroup(rows[h[1]], group_id_field)},
                      group_id_field)

\* the accumulators of _build_results when its loop over the responses ends
ResultsTotals(rows, group_id_field) ==
    ResultsTotalsOver(rows, ResultsScored(rows), group_id_field)

\* round(num / den, 1) in tenths, for den > 0: the nearest tenth, a tie going
\* to the even one.  A tie of an average is a multiple of a quarter and a
\* tie of a percent needs a count that is a multiple of 16; for the counts
\* below 16 used here the float is exact wherever a tie occurs.
Round1(num, den) ==
    LET q == (10 * num) \div den
        rem == (10 * num) % den
    IN  IF 2 * rem > den THEN q + 1
        ELSE IF 2 * rem < den THEN q
        ELSE IF q % 2 = 0 THEN q ELSE q + 1

\* _score_label(avg) for avg = num / den
score_label(num, den) ==
    IF num >= 4 * den THEN "Adequado"
    ELSE IF num >= 3 * den THEN "Moderado"
    ELSE "Critico"

\* zones whose lower bounds are not part of them
ZoneAboveBounds(num, den) ==
    IF num > 75 * den THEN "BOM"
    ELSE IF num > 40 * den THEN "ATENCAO"
    ELSE "RUIM"

\* the zone of the percent as reported, rounded to one decimal
ZoneOfReportedPercent(num, den) ==
    IF Round1(num, den) >= 750 THEN "BOM"
    ELSE IF Round1(num, den) >= 400 THEN "ATENCAO"
    ELSE "RUIM"

\* _zone_label(percent) for percent = num / den
zone_label(num, den) ==
    IF num >= 75 * den THEN "BOM"
    ELSE IF num >= 40 * den THEN "ATENCAO"
    ELSE "RUIM"

\* a percent derived from the average as reported
PercentOfReportedAvg(totals) ==
    [avg |-> IF totals.count # 0 THEN Round1(totals.sum, totals.count) ELSE 0,
     percent |-> IF totals.count # 0 THEN 20 * Round1(totals.sum, totals.count) ELSE 0]

\* the 'avg' and 'percent' an accumulator is reported with, in tenths:
\* avg = sum / count, percent = (avg / 5) * 100, each rounded on its own
AvgPercent(totals) ==
    [avg |-> IF totals.count # 0 THEN Round1(totals.sum, totals.count) ELSE 0,
     percent |-> IF totals.count # 0 THEN Round1(20 * totals.sum, totals.count) ELSE 0]

\* the label of the overall average
OverallLabel(totals) ==
    IF totals.count # 0 THEN score_label(totals.sum, totals.count) ELSE "Sem dados"

\* a dict of the actions of every plan row, active or not
ActionsOfAnyPlan(plan_rows) ==
    [n \in {row.question_number : row \in plan_rows} |->
       (CHOOSE row \in plan_rows : row.question_number = n).actions]

\* the standard_actions dict of the report views: the 'actions' of the
\* company's active plan rows by question_number, which is unique in a
\* company
standard_actions(plan_rows) ==
    LET active == {row \in plan_rows : row.is_active}
    IN  [n \in {row.question_number : row \in active} |->
           (CHOOSE row \in active : row.question_number = n).actions]

\* standard_actions.get(question_number, [])
ActionsFor(actions, question_number) ==
    IF question_number \in DOMAIN actions THEN actions[question_number] ELSE <<>>

\* a question's entry in 'questions' and in a group's 'questions'; i counts
\* from 1 where the code's idx counts from 0
QuestionEntry(key, i, totals, actions) ==
    [text |-> STEP_QUESTIONS(key)[i],
     question_number |-> STEP_OFFSETS(key) + (i - 1) + 1,
     actions |-> ActionsFor(actions, STEP_OFFSETS(key) + (i - 1) + 1),
     avg |-> AvgPercent(totals).avg,
     percent |-> AvgPercent(totals).percent,
     zone |-> IF totals.count # 0 THEN zone_label(20 * totals.sum, totals.count)
              ELSE "Sem dados"]

\* what _build_results returns, with the accumulators it was derived from
\* kept under 'totals'; lists of groups are keyed by group id
build_results(rows, actions, group_id_field) ==
    LET acc == ResultsTotals(rows, group_id_field)
    IN  [overall_avg |-> AvgPercent(acc.overall).avg,
         overall_percent |-> AvgPercent(acc.overall).percent,
         overall_label |-> OverallLabel(acc.overall),
         domains |-> [key \in DOMAIN_BY_STEP |-> AvgPercent(acc.domain_totals[key])],
         domain_details |->
            [key \in DOMAIN_BY_STEP |->
               [avg |-> AvgPercent(acc.domain_totals[key]).avg,
                percent |-> AvgPercent(acc.domain_totals[key]).percent,
                group_items |->
                   [g \in DOMAIN acc.group_totals[key] |->
                      AvgPercent(acc.group_totals[key][g])],
                questions |->
                   [i \in 1..Len(STEP_QUESTIONS(key)) |->
                      QuestionEntry(key, i, acc.question_totals[key][i], actions)],
                group_questions |->
                   [g \in DOMAIN acc.group_question_totals[key] |->
                      [i \in 1..Len(STEP_QUESTIONS(key)) |->
                         QuestionEntry(key, i, acc.group_question_totals[key][g][i], actions)]]]],
         totals |-> acc]

\* build_campaign_metrics: the answers at the catalog's positions of a
\* domain's list that have a score
MetricsScored(rows) ==
    {h \in AnswerPositions(rows) :
        h[3] <= Len(STEP_QUESTIONS(h[2])) /\ ScoreAt(rows, h) # 0}

\* the accumulators of build_campaign_metrics when its loop ends; a question
\* is keyed by (question_number, question_text, domain)
MetricsTotals(rows, group_id_field) ==
    LET H == MetricsScored(rows)
        grouped == {h \in H : HasGroup(rows[h[1]], group_id_field)}
        gid(h) == CHOOSE g \in GroupId(rows[h[1]], group_id_field) : TRUE
        qkey(h) == <<STEP_OFFSETS(h[2]) + (h[3] - 1) + 1, STEP_QUESTIONS(h[2])[h[3]], h[2]>>
    IN  [overall |-> Totals(rows, H),
         domain_totals |->
            [key \in DOMAIN_BY_STEP |-> Totals(rows, {h \in H : h[2] = key})],
         group_totals |->
            [g \in {gid(h) : h \in grouped} |->
               Totals(rows, {h \in grouped : gid(h) = g})],
         question_totals |->
            [k \in {qkey(h) : h \in H} |-> Totals(rows, {h \in H : qkey(h) = k})]]

\* what build_campaign_metrics returns when it groups by group_id_field,
\* with its accumulators kept under 'totals'
MetricsOf(rows, group_id_field) ==
    LET acc == MetricsTotals(rows, group_id_field)
    IN  [responses_count |-> Len(rows),
         overall_avg |-> AvgPercent(acc.overall).avg,
         overall_percent |-> AvgPercent(acc.overall).percent,
         overall_label |-> OverallLabel(acc.overall),
         domains |-> [key \in DOMAIN_BY_STEP |-> AvgPercent(acc.domain_totals[key])],
         groups |-> [g \in DOMAIN acc.group_totals |-> AvgPercent(acc.group_totals[g])],
         questions |->
            [k \in DOMAIN acc.question_totals |->
               [question_number |-> k[1], text |-> k[2], domain |-> k[3],
                avg |-> AvgPercent(acc.question_totals[k]).avg,
                percent |-> AvgPercent(acc.question_totals[k]).percent]],
         totals |-> acc]

\* build_campaign_metrics for the responses of campaign c
build_campaign_metrics(rows, c) == MetricsOf(rows, GroupIdField(c))

\* the responses of a campaign, in the order stored
ResponsesOf(rows, c) == SelectSeq(rows, LAMBDA row : row.campaign = c)

\* CampaignReportView.get: the on-screen report of a finished campaign,
\* grouped by the field of the tenant's grouping mode
CampaignReport(c) ==
    /\ UNCHANGED <<campaign, plans, status, assessment, store, session, inflight>>
    /\ last' = IF status[c] # FINISHED
               THEN Handled("admin", c, "report", 0, FALSE, FALSE, "campaigns-list", 0)
               ELSE [Handled("admin", c, "report", 0, FALSE, FALSE, "report", 0)
                       EXCEPT !.out = build_results(ResponsesOf(store, c),
                                                    standard_actions(plans[campaign[c].company]),
                                                    GroupIdField(c))]

\* CampaignReportPdfView.get: the PDF report of a finished campaign; it
\* calls _build_results without group_id_field, whose default is 'ghe_id'
CampaignReportPdf(c) ==
    /\ UNCHANGED <<campaign, plans, status, assessment, store, session, inflight>>
    /\ last' = IF status[c] # FINISHED
               THEN Handled("admin", c, "pdf", 0, FALSE, FALSE, "campaigns-list", 0)
               ELSE [Handled("admin", c, "pdf", 0, FALSE, FALSE, "report", 0)
                       EXCEPT !.out = build_results(ResponsesOf(store, c),
                                                    standard_actions(plans[campaign[c].company]),
                                                    "ghe_id")]

\* a lookup among the campaigns of any status
ResolveAnyStatus(campaign_id) ==
    IF campaign_id \in DOMAIN status THEN Some(campaign_id) ELSE None

\* ReportCompareView._resolve_campaign over campaigns_qs, the tenant's
\* campaigns with status FINISHED: the campaign asked for, or None
resolve_campaign(campaign_id) ==
    IF campaign_id \in DOMAIN status /\ status[campaign_id] = FINISHED
    THEN Some(campaign_id) ELSE None

\* the comparison page computing the metrics of a campaign it compares,
\* which is one it resolved
CampaignMetrics(c) ==
    /\ UNCHANGED <<campaign, plans, status, assessment, store, session, inflight>>
    /\ last' = IF resolve_campaign(c) = None
               THEN Handled("admin", c, "metrics", 0, FALSE, FALSE, "no-comparison", 0)
               ELSE [Handled("admin", c, "metrics", 0, FALSE, FALSE, "metrics", 0)
                       EXCEPT !.out = build_campaign_metrics(ResponsesOf(store, c), c)]

\* ------------------------------------------------ comparing two campaigns

\* round(num / den, 2) in hundredths, a tie going to the even one; the
\* quotients of _compare_counts that are ties are multiples of 1/8, which
\* the float holds exactly
Round2(num, den) ==
    LET q == (100 * num) \div den
        rem == (100 * num) % den
    IN  IF 2 * rem > den THEN q + 1
        ELSE IF 2 * rem < den THEN q
        ELSE IF q % 2 = 0 THEN q ELSE q + 1

\* _compare_counts(metrics_a, metrics_b, key) for the values a and b of the
\* key, given in units of `scale` to the unit (1 for a count, 10 for a value
\* in tenths): 'a', 'b' and 'delta' are whole units, 'percent' is in
\* hundredths or None
compare_counts(a, b, scale) ==
    LET a_val == a \div scale
        b_val == b \div scale
        delta == b_val - a_val
    IN  [a |-> a_val, b |-> b_val, delta |-> delta,
         percent |-> IF a_val = 0 THEN None ELSE Some(Round2(delta * 100, a_val))]

\* the item a side is given for a key it does not have
MissingItem == [avg |-> 0, percent |-> 0]

\* rows that leave out the keys only B has
KeysOfA(keys_a, keys_b) == keys_a

\* the keys a list of rows is built for: those of A or of B
UnionOfKeys(keys_a, keys_b) == keys_a \cup keys_b

\* round(delta * 100 / a_item['percent'], 1) in tenths, for num / den the
\* quotient of the tenths.  The float product and quotient of two reported
\* percents are not exact, so a quotient halfway between two tenths is
\* rounded to either of them (delta 18.6 of 80.0 gives 23.3, not the even
\* 23.2): a tie goes up when tie_up and down when not.
RoundQuotient(num, den, tie_up) ==
    LET q == (10 * num) \div den
        rem == (10 * num) % den
    IN  IF 2 * rem > den THEN q + 1
        ELSE IF 2 * rem < den THEN q
        ELSE IF tie_up THEN q + 1 ELSE q

\* the row of build_campaign_comparison, build_named_comparison and
\* build_question_comparison for the items of one key: 'delta' in tenths,
\* 'percent' the relative change in tenths or None
ComparisonRow(a_item, b_item, tie_up) ==
    LET delta == b_item.percent - a_item.percent
    IN  [a |-> [avg |-> a_item.avg, percent |-> a_item.percent],
         b |-> [avg |-> b_item.avg, percent |-> b_item.percent],
         delta |-> delta,
         percent |-> IF a_item.percent = 0 THEN None
                     ELSE Some(RoundQuotient(delta * 100, a_item.percent, tie_up))]

\* map.get(key, {'avg': 0, 'percent': 0})
ItemOr(map, key) == IF key \in DOMAIN map THEN map[key] ELSE MissingItem

\* the rows of the domains, by label, and build_named_comparison, the rows
\* of the groups by name; a group is named after its id here
build_named_comparison(items_a, items_b, tie_up) ==
    [key \in UnionOfKeys(DOMAIN items_a, DOMAIN items_b) |->
       ComparisonRow(ItemOr(items_a, key), ItemOr(items_b, key), tie_up)]

\* the questions of a metrics result by question_number
QuestionMap(questions) ==
    [n \in {k[1] : k \in DOMAIN questions} |->
       questions[CHOOSE k \in DOMAIN questions : k[1] = n]]

\* build_question_comparison: the rows of the questions by number, with
\* the text and domain of A's item, else of B's
build_question_comparison(questions_a, questions_b, tie_up) ==
    LET map_a == QuestionMap(questions_a)
        map_b == QuestionMap(questions_b)
    IN  [n \in UnionOfKeys(DOMAIN map_a, DOMAIN map_b) |->
           LET named == IF n \in DOMAIN map_a THEN map_a[n] ELSE map_b[n]
               row == ComparisonRow(ItemOr(map_a, n), ItemOr(map_b, n), tie_up)
           IN  [number |-> n, text |-> named.text, domain |-> named.domain,
                a |-> row.a, b |-> row.b, delta |-> row.delta, percent |-> row.percent]]

\* build_campaign_comparison(metrics_a, metrics_b), its ties going up or not
build_campaign_comparison(metrics_a, metrics_b, tie_up) ==
    [responses_count |->
        compare_counts(metrics_a.responses_count, metrics_b.responses_count, 1),
     overall_avg |-> compare_counts(metrics_a.overall_avg, metrics_b.overall_avg, 10),
     overall_percent |->
        compare_counts(metrics_a.overall_percent, metrics_b.overall_percent, 10),
     overall_label |-> [a |-> metrics_a.overall_label, b |-> metrics_b.overall_label],
     domains |-> build_named_comparison(metrics_a.domains, metrics_b.domains, tie_up),
     groups |-> build_named_comparison(metrics_a.groups, metrics_b.groups, tie_up),
     questions |-> build_question_comparison(metrics_a.questions, metrics_b.questions, tie_up)]

\* the comments of a campaign's Responses that are not blank, stripped
CommentsOf(rows, c) ==
    LET kept == SelectSeq(ResponsesOf(rows, c), LAMBDA row : Strip(row.comments) # <<>>)
    IN  [i \in 1..Len(kept) |-> Strip(kept[i].comments)]

\* ReportCompareView.get for ?report_a=..&report_b=..: the two campaigns
\* are looked up among the finished ones, and two different ones are
\* compared; the comments of each one found are listed
ReportCompare(report_a, report_b, tie_up) ==
    LET campaign_a == resolve_campaign(report_a)
        campaign_b == resolve_campaign(report_b)
        compared == campaign_a # None /\ campaign_b # None /\ report_a # report_b
        metrics_a == build_campaign_metrics(ResponsesOf(store, report_a), report_a)
        metrics_b == build_campaign_metrics(ResponsesOf(store, report_b), report_b)
    IN  /\ UNCHANGED <<campaign, plans, status, assessment, store, session, inflight>>
        /\ last' =
             [Handled("admin", report_a, "compare", 0, FALSE, FALSE,
                      IF compared THEN "comparison" ELSE "no-comparison", 0)
                EXCEPT !.out =
                  [a |-> campaign_a, b |-> campaign_b,
                   metrics_a |-> IF compared THEN Some(metrics_a) ELSE None,
                   metrics_b |-> IF compared THEN Some(metrics_b) ELSE None,
                   comparison |->
                      IF compared
                      THEN Some(build_campaign_comparison(metrics_a, metrics_b, tie_up))
                      ELSE None,
                   comments_a |-> IF campaign_a # None THEN CommentsOf(store, report_a) ELSE <<>>,
                   comments_b |-> IF campaign_b # None THEN CommentsOf(store, report_b) ELSE <<>>]]

\* ------------------------------------------------- what the clients send

Sessions == {"s1", "s2"}
Campaigns == {"c1"}

\* the same CPF written with and without punctuation, another CPF, and two
\* that do not reduce to 11 digits
CpfA == <<"1", "2", "3", ".", "4", "5", "6", ".", "7", "8", "9", "-", "0", "1">>
CpfAPlain == <<" ", "1", "2", "3", "4", "5", "6", "7", "8", "9", "0", "1">>
CpfB == <<"9", "8", "7", "6", "5", "4", "3", "2", "1", "0", "0">>
CpfShort == <<"1", "2", "3">>
CpfLetters == <<"a", "b">>

BaseForm ==
    [cpf |-> CpfA, age |-> <<"3", "0">>, ghe_id |-> <<"4">>, department_id |-> <<"5">>,
     job_function_id |-> <<"6">>, first_name |-> <<" ", "Ana", " ">>, sex |-> <<"F">>]

\* BaseForm and the forms that differ from it in one field
FormsOf(base, cpfs) ==
    {[base EXCEPT !.cpf = x] : x \in cpfs}
    \cup {[base EXCEPT !.age = x] : x \in {<<>>, <<"0">>, <<"a">>, <<"-", "3">>}}
    \cup {[base EXCEPT !.ghe_id = x] : x \in {<<>>, <<"x">>}}
    \cup {[base EXCEPT !.department_id = x] : x \in {<<" ">>, <<"x">>}}
    \cup {[base EXCEPT !.job_function_id = x] : x \in {<<>>}}

IdentityForms == FormsOf(BaseForm, {CpfA, CpfAPlain, CpfShort, CpfLetters})

Filled(n, answer) == [i \in 1..QuestionCount(n) |-> answer]

\* what a block form may carry in q1..qk: every answer given, the last one
\* not sent, the first one blank
BlockForms(n) ==
    {Filled(n, <<" ", "Sempre", " ">>),
     [Filled(n, <<"Sempre">>) EXCEPT ![QuestionCount(n)] = <<>>],
     [Filled(n, <<"Sempre">>) EXCEPT ![1] = <<" ">>]}
    \cup (IF n = 2 THEN {Filled(n, <<"Nunca">>)} ELSE {})

CommentInputs == {<<>>, <<" ">>, <<" ", "ok", " ">>}

JsonDict(meta, responses, comments) ==
    [raw |-> "json",
     value |-> [t |-> "dict", meta |-> meta, responses |-> responses,
                comments |-> comments]]

\* answers as a client may hold them: a block with a single answer
ShortAnswers ==
    [t |-> "dict",
     v |-> [k \in {"step2"} |-> <<[question |-> <<2, 1>>, answer |-> <<"Raramente">>]>>]]

\* the local_payload field: not sent, not JSON, a JSON list, JSON objects
PayloadsOf(forms) ==
    {[raw |-> "empty"], [raw |-> "invalid"], [raw |-> "json", value |-> [t |-> "list"]]}
    \cup {JsonDict(m, [t |-> "none"], <<>>) : m \in forms}
    \cup {JsonDict(BaseForm, ShortAnswers, <<" ", "pc">>),
          JsonDict(BaseForm, [t |-> "dict", v |-> EmptyDict], <<>>)}

Payloads ==
    PayloadsOf({BaseForm,
                [BaseForm EXCEPT !.cpf = CpfShort], [BaseForm EXCEPT !.age = <<"0">>],
                [BaseForm EXCEPT !.age = <<"a">>], [BaseForm EXCEPT !.ghe_id = <<>>],
                [BaseForm EXCEPT !.department_id = <<>>],
                [BaseForm EXCEPT !.department_id = <<"x">>],
                [BaseForm EXCEPT !.job_function_id = <<>>]})

\* ------------------------------------------------------ the specification

NoRequest == Handled("none", "c1", "none", 0, FALSE, FALSE, "none", 0)

\* the companies, and a company without standard action plans
Companies == {"k1", "k2"}

NoPlans == [k \in Companies |-> {}]

\* a campaign as created: a company, a title and a period of days
CreatedCampaign == [company |-> "k1", title |-> <<"Clima">>, start_date |-> 1, end_date |-> 2]

Init ==
    /\ campaign = [c \in Campaigns |-> CreatedCampaign]
    /\ plans = NoPlans
    /\ status \in [Campaigns -> Status]
    /\ assessment \in [Campaigns -> {"GHE", "SETOR"}]
    /\ store = <<>>
    /\ session = [s \in Sessions |-> [c \in Campaigns |-> NoData]]
    /\ inflight = [s \in Sessions |-> NoData]
    /\ last = NoRequest

InitActive == Init /\ status = [c \in Campaigns |-> ACTIVE]

WizardPayloads ==
    {[raw |-> "empty"], [raw |-> "json", value |-> [t |-> "list"]],
     JsonDict(BaseForm, [t |-> "none"], <<>>),
     JsonDict(BaseForm, ShortAnswers, <<" ", "pc">>)}

WizardForms ==
    {BaseForm, [BaseForm EXCEPT !.cpf = CpfAPlain], [BaseForm EXCEPT !.cpf = CpfShort],
     [BaseForm EXCEPT !.job_function_id = <<>>]}

\* One respondent and an active campaign: the steps are posted in any order.
Next ==
    \/ \E form \in WizardForms : PostStep1("s1", "c1", form)
    \/ \E n \in BlockSteps : \E posted \in BlockForms(n) : PostBlock("s1", "c1", n, posted)
    \/ \E cm \in CommentInputs : \E lp \in WizardPayloads : PostStep9("s1", "c1", cm, lp)
    \/ \E works \in BOOLEAN : CreateResponse("s1", works)
    \/ \E step \in {<<"3">>, <<"1", "0">>} : Get("s1", "c1", step)

Spec == InitActive /\ [][Next]_vars

\* blocks posted in the wizard's order: block n once block n - 1 is recorded
InOrder(s, c, n) ==
    IF n = 2 \/ session[s][c] = NoData THEN n = 2
    ELSE StepKey(n - 1) \in DOMAIN session[s][c].responses

\* One respondent following the wizard's order while an administrator
\* changes the campaign's status.
NextStatus ==
    \/ \E form \in IdentityForms : PostStep1("s1", "c1", form)
    \/ \E n \in BlockSteps : \E posted \in BlockForms(n) :
          InOrder("s1", "c1", n) /\ PostBlock("s1", "c1", n, posted)
    \/ \E cm \in CommentInputs : \E lp \in Payloads : PostStep9("s1", "c1", cm, lp)
    \/ \E works \in BOOLEAN : CreateResponse("s1", works)
    \/ PostInvalidStep("s1", "c1")
    \/ \E step \in {<<>>, <<"3">>, <<"1", "0">>} : Get("s1", "c1", step)
    \/ \E st \in Status : \E force \in BOOLEAN : CampaignUpdate("c1", StatusForm("c1", st), force, 0)

SpecStatus == Init /\ [][NextStatus]_vars

\* Two respondents, who may hold the same CPF, committing concurrently.
RaceForms == {[BaseForm EXCEPT !.cpf = x] : x \in {CpfA, CpfAPlain, CpfB, CpfShort}}

RacePayloads ==
    {[raw |-> "empty"], JsonDict(BaseForm, ShortAnswers, <<>>),
     JsonDict([BaseForm EXCEPT !.cpf = CpfB], [t |-> "none"], <<>>)}

NextRace ==
    \/ \E s \in Sessions : \E form \in RaceForms : PostStep1(s, "c1", form)
    \/ \E s \in Sessions : \E lp \in RacePayloads : PostStep9(s, "c1", <<>>, lp)
    \/ \E s \in Sessions : \E works \in BOOLEAN : CreateResponse(s, works)

SpecRace == InitActive /\ [][NextRace]_vars

\* the answer list of block n with the labels given, in order
AnswerList(n, labels) ==
    [i \in 1..Len(labels) |-> [question |-> <<n, i>>, answer |-> labels[i]]]

\* answer maps as stored Responses hold them: short lists of block 2, a
\* block 3 with two of its six answers on the scale, a block 8 longer than
\* the catalog next to a key that is no block, and no answers at all
AnswerMaps ==
    <<[k \in {"step2"} |-> AnswerList(2, <<<<"Sempre">>, <<"Frequentemente">>>>)],
      [k \in {"step2"} |-> AnswerList(2, <<<<"As vezes">>, <<"As vezes">>>>)],
      [k \in {"step2"} |-> AnswerList(2, <<<<"Nunca">>, <<"Nunca">>>>)],
      [k \in {"step3"} |-> AnswerList(3, <<<<"Sempre">>, <<"Talvez">>, <<"Raramente">>,
                                           <<>>, <<"x">>, <<"Talvez">>>>)],
      [k \in {"step8", "step9"} |->
         IF k = "step8"
         THEN AnswerList(8, <<<<"Sempre">>, <<"Sempre">>, <<"Sempre">>, <<"Nunca">>>>)
         ELSE AnswerList(9, <<<<"Sempre">>>>)],
      EmptyDict>>

\* the group references of the Response holding each answer map
GroupsOfMaps ==
    <<[ghe_id |-> Some(4), department_id |-> Some(5)],
      [ghe_id |-> Some(4), department_id |-> Some(7)],
      [ghe_id |-> Some(9), department_id |-> Some(5)],
      [ghe_id |-> None, department_id |-> Some(5)],
      [ghe_id |-> Some(4), department_id |-> Some(5)],
      [ghe_id |-> None, department_id |-> Some(7)]>>

\* the Response stored in place i holding answer map k: each place is a
\* respondent of its own
ReportRow(i, k) ==
    [campaign |-> "c1",
     cpf_hash |-> hash_cpf("c1", [j \in 1..CpfLen |-> IF j = CpfLen
                                                 THEN <<"1", "2", "3", "4", "5", "6", "7", "8", "9">>[i]
                                                 ELSE "0"]),
     first_name |-> <<>>, age |-> 30, sex |-> <<"F">>,
     ghe_id |-> GroupsOfMaps[k].ghe_id,
     department_id |-> GroupsOfMaps[k].department_id,
     job_function_id |-> None,
     responses |-> AnswerMaps[k],
     comments |-> <<>>]

MaxResponses == 3

\* the stores the reports are taken of: up to MaxResponses Responses
ReportStores ==
    UNION {{[i \in 1..n |-> ReportRow(i, pick[i])] : pick \in [1..n -> 1..Len(AnswerMaps)]} :
             n \in 0..MaxResponses}

InitReport ==
    /\ campaign = [c \in Campaigns |-> CreatedCampaign]
    /\ plans = NoPlans
    /\ status \in [Campaigns -> {ACTIVE, FINISHED}]
    /\ assessment \in [Campaigns -> {"GHE", "SETOR"}]
    /\ store \in ReportStores
    /\ session = [s \in Sessions |-> [c \in Campaigns |-> NoData]]
    /\ inflight = [s \in Sessions |-> NoData]
    /\ last = NoRequest

\* The reports and the metrics taken of the stored Responses.
NextReport ==
    \/ CampaignReport("c1")
    \/ CampaignReportPdf("c1")
    \/ CampaignMetrics("c1")

SpecReport == InitReport /\ [][NextReport]_vars

\* the campaigns of the tenant whose reports are compared
ComparedCampaigns == {"c1", "c2"}

\* the Response of campaign c stored in place i holding answer map k
ComparedRow(c, i, k) ==
    [ReportRow(i, k) EXCEPT
       !.campaign = c,
       !.cpf_hash = hash_cpf(c, ReportRow(i, k).cpf_hash[2]),
       !.comments = IF k = 1 THEN <<" ", "ok">> ELSE <<" ">>]

MaxCompared == 3

MaxComparedWith == 1

\* the Responses of a campaign compared: up to n of them, in the order of
\* their answer maps (the aggregation is a sum over them)
ComparedRows(c, n) ==
    UNION {{[i \in 1..m |-> ComparedRow(c, i, pick[i])] :
              pick \in {p \in [1..m -> 1..Len(AnswerMaps)] :
                          \A i \in 1..m, j \in 1..m : i < j => p[i] <= p[j]}} :
             m \in 0..n}

\* two campaigns of one tenant, finished or not, with up to MaxCompared
\* Responses of the first and up to MaxComparedWith of the second
InitCompare ==
    /\ campaign = [c \in ComparedCampaigns |-> CreatedCampaign]
    /\ plans = NoPlans
    /\ status \in [ComparedCampaigns -> {ACTIVE, FINISHED}]
    /\ \E mode \in {"GHE", "SETOR"} : assessment = [c \in ComparedCampaigns |-> mode]
    /\ \E rows_a \in ComparedRows("c1", MaxCompared), rows_b \in ComparedRows("c2", MaxComparedWith) :
          store = rows_a \o rows_b
    /\ session = [s \in Sessions |-> [c \in ComparedCampaigns |-> NoData]]
    /\ inflight = [s \in Sessions |-> NoData]
    /\ last = NoRequest

\* the ids a comparison is asked with: the two campaigns and one unknown
CompareIds == ComparedCampaigns \cup {"c9"}

\* The comparison page asked for any two ids, and the reports of the two
\* campaigns.
NextCompare ==
    \/ \E report_a \in CompareIds, report_b \in CompareIds, tie_up \in BOOLEAN :
          ReportCompare(report_a, report_b, tie_up)
    \/ \E c \in ComparedCampaigns : CampaignReport(c)
    \/ \E c \in ComparedCampaigns : CampaignReportPdf(c)

SpecCompare == InitCompare /\ [][NextCompare]_vars

\* the forms an administrator updates a campaign with: the title kept,
\* changed or blanked, any period of two days, either company, any status
UpdateForms ==
    [company_id : Companies,
     title : {<<"Clima">>, <<" ", "Clima", " ", "2025", " ">>, <<" ">>},
     start_date : {1, 2}, end_date : {1, 2}, status : Status]

\* a campaign as created, of any status, with no Response or one
InitUpdate ==
    /\ campaign = [c \in Campaigns |-> CreatedCampaign]
    /\ plans = NoPlans
    /\ status \in [Campaigns -> Status]
    /\ assessment \in [Campaigns -> {"GHE", "SETOR"}]
    /\ store \in ComparedRows("c1", 1)
    /\ session = [s \in Sessions |-> [c \in Campaigns |-> NoData]]
    /\ inflight = [s \in Sessions |-> NoData]
    /\ last = NoRequest

\* Updates of the campaign by an administrator of a company of no or one
\* employee.
NextUpdate ==
    \E form \in UpdateForms, force \in BOOLEAN, total_workers \in {0, 1} :
        CampaignUpdate("c1", form, force, total_workers)

SpecUpdate == InitUpdate /\ [][NextUpdate]_vars

\* two campaigns open in one browser session
OpenCampaigns == {"c1", "c2"}

InitTwo ==
    /\ campaign = [c \in OpenCampaigns |-> CreatedCampaign]
    /\ plans = NoPlans
    /\ status = [c \in OpenCampaigns |-> ACTIVE]
    /\ assessment = [c \in OpenCampaigns |-> "GHE"]
    /\ store = <<>>
    /\ session = [s \in Sessions |-> [c \in OpenCampaigns |-> NoData]]
    /\ inflight = [s \in Sessions |-> NoData]
    /\ last = NoRequest

\* One respondent answering two active campaigns in the same session, the
\* requests of the session following one another.
NextTwo ==
    \/ \E c \in OpenCampaigns :
          \E form \in {BaseForm, [BaseForm EXCEPT !.cpf = CpfShort]} : PostStep1("s1", c, form)
    \/ \E c \in OpenCampaigns : \E n \in BlockSteps :
          \E posted \in {Filled(n, <<"Sempre">>), [Filled(n, <<"Sempre">>) EXCEPT ![1] = <<" ">>]} :
              InOrder("s1", c, n) /\ PostBlock("s1", c, n, posted)
    \/ \E c \in OpenCampaigns :
          \E lp \in {[raw |-> "empty"], JsonDict(BaseForm, ShortAnswers, <<" ", "pc">>)} :
              PostStep9("s1", c, <<>>, lp)
    \/ \E works \in BOOLEAN : CreateResponse("s1", works)
    \/ \E c \in OpenCampaigns : PostInvalidStep("s1", c)

SpecTwo == InitTwo /\ [][NextTwo]_vars

\* block forms with every answer given: a label of the scale, or a text
\* the scale does not hold
LabelForms(n) == {Filled(n, <<"Sempre">>), Filled(n, <<"Talvez">>)}

\* One respondent of an active campaign following the wizard's order, each
\* block posted with a scale label or with another text.
NextLabels ==
    \/ PostStep1("s1", "c1", BaseForm)
    \/ \E n \in BlockSteps : \E posted \in LabelForms(n) :
          InOrder("s1", "c1", n) /\ PostBlock("s1", "c1", n, posted)
    \/ \E cm \in CommentInputs : PostStep9("s1", "c1", cm, [raw |-> "empty"])
    \/ \E works \in BOOLEAN : CreateResponse("s1", works)

SpecLabels == InitActive /\ [][NextLabels]_vars

MaxScored == 23

ManyScored == 103

\* sum / count or its percent lies halfway between two tenths and the float
\* does not hold it exactly (an average like 3.85 = 77 / 20, a percent
\* like 28.75 computed as (23 / 16 / 5) * 100): the float decides which
\* tenth is reported
FloatDecides(sum, count) ==
    \/ 2 * ((10 * sum) % count) = count /\ (4 * sum) % count # 0
    \/ 2 * ((200 * sum) % count) = count

\* the accumulators an aggregation can end with: up to MaxScored scored
\* answers, or ManyScored of them, each scored 1 to 5, Round1 being the
\* float's rounding on each
ScoredTotals ==
    {t \in UNION {[sum : count..(5 * count), count : {count}] :
                    count \in (1..MaxScored) \cup {ManyScored}} :
        ~FloatDecides(t.sum, t.count)}

\* an aggregation that has summed a campaign's answers into an accumulator
InitClassify ==
    /\ campaign = [c \in Campaigns |-> CreatedCampaign]
    /\ plans = NoPlans
    /\ status = [c \in Campaigns |-> FINISHED]
    /\ assessment \in [Campaigns -> {"GHE"}]
    /\ store = <<>>
    /\ session = [s \in Sessions |-> [c \in Campaigns |-> NoData]]
    /\ inflight = [s \in Sessions |-> NoData]
    /\ \E totals \in ScoredTotals : last = [NoRequest EXCEPT !.out = totals]

\* _build_results turning the accumulator of a question into its entry
ReportQuestion ==
    /\ last.op = "none"
    /\ UNCHANGED <<campaign, plans, status, assessment, store, session, inflight>>
    /\ last' = [Handled("admin", "c1", "question", 0, FALSE, FALSE, "report", 0)
                  EXCEPT !.out = [totals |-> last.out,
                                  entry |-> QuestionEntry("step2", 1, last.out, EmptyDict)]]

\* _build_results and build_campaign_metrics turning the overall
\* accumulator into overall_avg, overall_percent and overall_label
ReportOverall ==
    /\ last.op = "none"
    /\ UNCHANGED <<campaign, plans, status, assessment, store, session, inflight>>
    /\ last' = [Handled("admin", "c1", "overall", 0, FALSE, FALSE, "report", 0)
                  EXCEPT !.out = [totals |-> last.out,
                                  overall_avg |-> AvgPercent(last.out).avg,
                                  overall_percent |-> AvgPercent(last.out).percent,
                                  overall_label |-> OverallLabel(last.out)]]

\* The output stage of the aggregation on one accumulator.
NextClassify == ReportQuestion \/ ReportOverall

SpecClassify == InitClassify /\ [][NextClassify]_vars

\* a standard_action_plans row; trigger_score_lt in hundredths
PlanRow(question_number, actions, trigger_score_lt, is_active) ==
    [question_number |-> question_number, actions |-> actions,
     trigger_score_lt |-> trigger_score_lt, is_active |-> is_active]

\* the rows a company may hold for a question number: none, an active one
\* with the default threshold 4.30, an inactive one, and an active one
\* with the threshold 1.00 that no average is below
PlanRowsFor(question_number) ==
    {{},
     {PlanRow(question_number, <<"treinar", "medir">>, 430, TRUE)},
     {PlanRow(question_number, <<"treinar">>, 430, FALSE)},
     {PlanRow(question_number, <<"medir">>, 100, TRUE)}}

\* the plan tables of a company: rows for question 1 and 2 (of the first
\* domain) and for question 9 (the first of the second domain)
PlanTables ==
    {one \cup two \cup nine :
        one \in PlanRowsFor(1), two \in PlanRowsFor(2), nine \in PlanRowsFor(9)}

MaxReported == 2

\* a campaign, finished or not, with up to MaxReported Responses, of a
\* company with any of the plan tables
InitActions ==
    /\ campaign = [c \in Campaigns |-> CreatedCampaign]
    /\ plans \in {[k \in Companies |-> IF k = "k1" THEN table ELSE {}] : table \in PlanTables}
    /\ status \in [Campaigns -> {ACTIVE, FINISHED}]
    /\ assessment \in [Campaigns -> {"GHE", "SETOR"}]
    /\ store \in ComparedRows("c1", MaxReported)
    /\ session = [s \in Sessions |-> [c \in Campaigns |-> NoData]]
    /\ inflight = [s \in Sessions |-> NoData]
    /\ last = NoRequest

\* The two reports of the campaign.
NextActions ==
    \/ CampaignReport("c1")
    \/ CampaignReportPdf("c1")

SpecActions == InitActions /\ [][NextActions]_vars

\* ---------------------------------------------------------- the claims

\* the commit of session s runs in this step: its insert is attempted
Commits(s) == inflight[s] # NoData /\ inflight'[s] = NoData

\* rows i and j of a table hold the same (campaign, hashed identity)
SameIdentity(rows, i, j) ==
    rows[i].campaign = rows[j].campaign /\ rows[i].cpf_hash = rows[j].cpf_hash

\* C1: the store never holds two Responses with the same (campaign, hashed
\* identity); a commit whose identity is already stored is rejected with an
\* error and stores nothing, and with the database working a commit whose
\* identity is not stored yet is the one that is stored -- for every
\* interleaving of the two sessions' identity steps and commits.
C1_OneResponsePerIdentity ==
    [][/\ \A i, j \in 1..Len(store') : SameIdentity(store', i, j) => i = j
       /\ \A s \in Sessions : Commits(s) =>
            LET row == inflight[s].row
                stored == \E i \in 1..Len(store) : SameIdentity(<<store[i], row>>, 1, 2)
            IN  IF stored
                THEN store' = store /\ last'.result = "error400"
                ELSE last'.db = "up" =>
                       store' = Append(store, row) /\ last'.result = "redirect"]_vars

\* a session that passed the identity step is refused at the commit, with the
\* database working, because the other session's Response is already stored
C1_DuplicateCommitRejected ==
    /\ last.op = "create" /\ last.result = "error400" /\ last.db = "up"
    /\ last.held /\ ~last.payload
    /\ Len(store) = 1
    /\ session[last.sess][last.camp] # NoData
    /\ store[1].cpf_hash = session[last.sess][last.camp].cpf_hash

\* C2: when the insert of a commit fails, by the uniqueness constraint or by
\* a storage error, the store is unchanged, the session still holds the
\* in-progress state the commit was made from, the answer is step 9 again
\* with an error, and the request is over: no second insert is attempted.
C2_FailedCommitKeepsState ==
    [][\A s \in Sessions : Commits(s) =>
         LET row == inflight[s].row
             c == inflight[s].camp
             stored == \E i \in 1..Len(store) : SameIdentity(<<store[i], row>>, 1, 2)
         IN  (stored \/ last'.db = "down") =>
               /\ store' = store
               /\ session[s][c] # NoData
               /\ session'[s][c] = session[s][c]
               /\ session[s][c].cpf_hash = row.cpf_hash
               /\ session[s][c].responses = row.responses
               /\ session[s][c].comments = row.comments
               /\ last'.result = "error400" /\ last'.to = 9 /\ last'.sess = s
               /\ inflight'[s] = NoData]_vars

\* a commit rebuilt from the client's payload failed on a storage error and
\* the rebuilt state is in the session
C2_RecoveredCommitFailed ==
    /\ last.op = "create" /\ last.result = "error400" /\ last.db = "down"
    /\ ~last.held /\ last.payload
    /\ session[last.sess][last.camp] # NoData
    /\ store = <<>>

RecoveredRow(form, c, responses, comments) ==
    ResponseRow(c, Step9Data(NoData, comments,
                             JsonDict(form, [t |-> "dict", v |-> responses], comments),
                             c, <<>>))

\* the identity form is one step 1 accepts and opens this row's in-progress
\* state from, and the row carries the seven blocks: the row is what the
\* normal path stores for the form
NormalRowOf(form, row) ==
    /\ DOMAIN row.responses = {StepKey(n) : n \in BlockSteps}
    /\ Step1Errors(form, row.campaign, <<>>) = {}
    /\ ~Step1Raises(form, row.campaign)
    /\ ResponseRow(row.campaign,
                   [Step1Data(form, row.campaign) EXCEPT
                      !.responses = row.responses, !.comments = row.comments]) = row

\* C4: every Response the normal path stores from an identity form, an
\* answer map and a comment equals, field by field, the Response the
\* recovery path stores from a client payload carrying the same data.
C4_RecoveryEqualsNormal ==
    \A i \in 1..Len(store) : \A form \in WizardForms :
        NormalRowOf(form, store[i]) =>
            RecoveredRow(form, store[i].campaign, store[i].responses,
                         store[i].comments) = store[i]

\* the number of digits in a text
DigitCount(t) == Cardinality({i \in 1..Len(t) : t[i] \in Digit})

\* the text is a positive integer written in digits
PositiveNumber(t) == IsDigit(Strip(t)) /\ ToInt(Strip(t)) > 0

\* the identity form (or a payload's meta) lacks a group field that the
\* campaign's grouping mode requires
LacksGroup(form, c) ==
    \/ Strip(form.department_id) = <<>>
    \/ assessment[c] = "GHE" /\ Strip(form.ghe_id) = <<>>
    \/ assessment[c] = "SETOR" /\ Strip(form.job_function_id) = <<>>

\* a Response with the form's hashed identity is stored for the campaign
AlreadyAnswered(form, c) ==
    \E i \in 1..Len(store) :
        store[i].campaign = c /\ store[i].cpf_hash = <<c, OnlyDigits(form.cpf)>>

\* the local_payload cannot be recovered from: it is absent, not JSON, not a
\* mapping, or its meta fails the identity step's checks
Unrecoverable(lp, c) ==
    \/ lp.raw \in {"empty", "invalid"}
    \/ lp.value.t # "dict"
    \/ DigitCount(lp.value.meta.cpf) # 11
    \/ ~PositiveNumber(lp.value.meta.age)
    \/ LacksGroup(lp.value.meta, c)
    \/ AlreadyAnswered(lp.value.meta, c)

\* C5: a step-9 post to an active campaign from a session without
\* in-progress state, whose local_payload is absent, is not a mapping, has
\* an identifier that is not 11 digits, an age that is not a positive
\* number, lacks a required group field or names an identity already
\* stored, is answered with the restart redirect; nothing is written to the
\* session, no insert is started and the store is unchanged.
C5_RecoveryFailsClosed ==
    [][(/\ last'.op = "post" /\ last'.step = 9
        /\ session["s1"]["c1"] = NoData
        /\ status["c1"] = ACTIVE)
       => \A cm \in CommentInputs : \A lp \in Payloads :
            (Unrecoverable(lp, "c1") /\ PostStep9("s1", "c1", cm, lp))
            => /\ last'.result = "restart"
               /\ UNCHANGED <<store, session, inflight>>]_vars

\* a recovery is refused while the respondent's Response is already stored
C5_RecoveryRefused ==
    /\ last.op = "post" /\ last.step = 9 /\ last.result = "restart"
    /\ ~last.held /\ last.payload
    /\ Len(store) = 1
    /\ session[last.sess][last.camp] = NoData

\* the row carries the hashed identity, demographics and group selections
\* of the in-progress state
SameRespondent(row, session_data) ==
    /\ row.cpf_hash = session_data.cpf_hash
    /\ row.first_name = session_data.first_name
    /\ row.age = session_data.age
    /\ row.sex = session_data.sex
    /\ row.ghe_id = session_data.ghe_id
    /\ row.department_id = session_data.department_id
    /\ row.job_function_id = session_data.job_function_id

\* a step-9 post that found a server-held state goes on to the insert
CommitsHeldState == last'.op = "post" /\ last'.step = 9 /\ last'.held /\ last'.result = "creating"

CarriesAnswers(lp) ==
    /\ lp.raw = "json" /\ lp.value.t = "dict"
    /\ lp.value.responses.t = "dict"
    /\ DOMAIN lp.value.responses.v # {}

C7_StrictlyForward ==
    [][/\ (last'.op = "post" /\ last'.step \in BlockSteps /\ last'.result = "redirect")
          => \A k \in 2..(last'.step - 1) :
                StepKey(k) \in DOMAIN session[last'.sess][last'.camp].responses
       /\ CommitsHeldState
          => DOMAIN inflight'[last'.sess].row.responses
                = {StepKey(n) : n \in BlockSteps}]_vars

\* the in-progress state differs from the earlier one in block n at most,
\* which holds one (question text, answer) pair per catalog question, in
\* order, with the posted answers stripped
OnlyBlockReplaced(before, after, n, posted) ==
    /\ SameRespondent(after, before)
    /\ after.comments = before.comments
    /\ DOMAIN after.responses = DOMAIN before.responses \cup {StepKey(n)}
    /\ \A k \in DOMAIN before.responses \ {StepKey(n)} :
          after.responses[k] = before.responses[k]
    /\ Len(after.responses[StepKey(n)]) = QuestionCount(n)
    /\ \A i \in 1..QuestionCount(n) :
          /\ after.responses[StepKey(n)][i].question = <<n, i>>
          /\ after.responses[StepKey(n)][i].answer = Strip(posted[i])

\* C8: a post of block n (2..8) that finds an in-progress state succeeds
\* only if every question of the block has a non-empty answer; when one is
\* missing the session, the store and the pending inserts are unchanged and
\* step n is shown again; on success exactly block n of the answer map is
\* replaced by the ordered (question text, answer) pairs, every other block
\* and field of the state is unchanged, and nothing is stored.
C8_BlockPost ==
    [][(/\ last'.op = "post" /\ last'.step \in BlockSteps
        /\ session["s1"]["c1"] # NoData)
       => \A n \in {last'.step} : \A posted \in BlockForms(n) :
            PostBlock("s1", "c1", n, posted) =>
              IF \E i \in 1..QuestionCount(n) : Strip(posted[i]) = <<>>
              THEN /\ UNCHANGED <<session, store, inflight>>
                   /\ last'.result = "again400" /\ last'.to = n
              ELSE /\ UNCHANGED <<store, inflight>>
                   /\ last'.result = "redirect" /\ last'.to = n + 1
                   /\ session'["s1"]["c1"] # NoData
                   /\ OnlyBlockReplaced(session["s1"]["c1"], session'["s1"]["c1"],
                                        n, posted)]_vars

\* block 2 was posted with other answers while two more blocks were recorded
C8_BlockReplaced ==
    /\ last.op = "post" /\ last.step = 2 /\ last.result = "redirect"
    /\ session["s1"]["c1"] # NoData
    /\ Cardinality(DOMAIN session["s1"]["c1"].responses) >= 3
    /\ session["s1"]["c1"].responses["step2"][1].answer = <<"Nunca">>

\* the in-progress state the identity step opens for the form: the hashed
\* identity, the demographics, the group selections of the grouping mode,
\* no answers and no comment
OpenedFor(data, form, c) ==
    /\ data.cpf_hash = <<c, OnlyDigits(form.cpf)>>
    /\ data.first_name = Strip(form.first_name)
    /\ data.age = ToInt(Strip(form.age))
    /\ data.sex = Strip(form.sex)
    /\ data.department_id = {ToInt(Strip(form.department_id))}
    /\ assessment[c] = "GHE" => data.ghe_id = {ToInt(Strip(form.ghe_id))}
    /\ assessment[c] = "SETOR" =>
          data.ghe_id = {} /\ data.job_function_id = {ToInt(Strip(form.job_function_id))}
    /\ Strip(form.job_function_id) = <<>> => data.job_function_id = {}
    /\ data.responses = EmptyDict
    /\ data.comments = <<>>

\* C9: an identity-step post to an active campaign is rejected when the
\* identifier does not reduce to 11 digits, the age is not a positive
\* number, a group field the grouping mode requires is missing, or a
\* Response with the hashed identity is stored for the campaign; a
\* rejection changes neither the session nor the store.  An accepted post
\* opens an in-progress state with the hashed identity, demographics and
\* group selections, an empty answer map and an empty comment.
C9_IdentityStep ==
    [][(last'.op = "post" /\ last'.step = 1 /\ status["c1"] = ACTIVE)
       => \A form \in IdentityForms :
            PostStep1("s1", "c1", form) =>
              IF \/ DigitCount(form.cpf) # 11
                 \/ ~PositiveNumber(form.age)
                 \/ LacksGroup(form, "c1")
                 \/ AlreadyAnswered(form, "c1")
              THEN /\ last'.result = "invalid400"
                   /\ UNCHANGED <<session, store, inflight>>
              ELSE last'.result = "redirect" =>
                     /\ UNCHANGED <<store, inflight>>
                     /\ session'["s1"]["c1"] # NoData
                     /\ OpenedFor(session'["s1"]["c1"], form, "c1")]_vars

\* the identity step refused a form for the one reason that the respondent's
\* Response is already stored
C9_DuplicateRejected ==
    /\ last.op = "post" /\ last.step = 1 /\ last.result = "invalid400"
    /\ last.msg = {"Este CPF ja foi utilizado nesta avaliacao."}
    /\ Len(store) = 1

\* C10: a GET or POST of the submission endpoint, at any step, that finds
\* the campaign Planned, Paused or Finished is answered with the view of
\* that status; no in-progress state is created or modified, no insert is
\* started and no Response is created.
C10_StatusGuard ==
    [][(last'.op \in {"get", "post"} /\ status[last'.camp] # ACTIVE)
       => /\ last'.result = CASE status[last'.camp] = PLANNED -> "planned"
                              [] status[last'.camp] = PAUSED -> "paused"
                              [] status[last'.camp] = FINISHED -> "finished"
          /\ UNCHANGED <<session, store, inflight, status>>]_vars

\* a commit carrying a payload, from a session with in-progress state, is
\* answered with the finished view
C10_FinishedCommitRefused ==
    /\ status["c1"] = FINISHED
    /\ last.op = "post" /\ last.step = 9 /\ last.result = "finished"
    /\ last.held /\ last.payload
    /\ session[last.sess][last.camp] # NoData

\* C11: after a commit of the session failed on a storage error, a step-9
\* post of the same session without local_payload, no block posted again,
\* goes on to the insert of the Response of the state the session holds
\* (identity, demographics, group selections, answer map), with the posted
\* comment or, when none is posted, the held one; and when the database
\* works that insert stores this Response, exactly one row more, and
\* answers with the redirect to step 10.
C11_RetryAfterStorageError ==
    [][/\ (StorageFailed("s1") /\ last'.op = "post" /\ last'.step = 9 /\ ~last'.payload)
          => LET held == session["s1"]["c1"]
             IN  /\ held # NoData
                 /\ last'.result = "creating"
                 /\ \A cm \in CommentInputs :
                      PostStep9("s1", "c1", cm, [raw |-> "empty"]) =>
                        inflight'["s1"].row =
                          ResponseRow("c1", [held EXCEPT
                             !.comments = IF cm = <<>> THEN held.comments ELSE Strip(cm)])
       /\ (/\ Commits("s1") /\ inflight["s1"].retry /\ ~inflight["s1"].payload
           /\ last'.db = "up")
          => /\ store' = Append(store, inflight["s1"].row)
             /\ \A i \in 1..Len(store) :
                  ~SameIdentity(<<store[i], inflight["s1"].row>>, 1, 2)
             /\ last'.result = "redirect" /\ last'.to = 10]_vars

\* the retry of a commit that failed on a storage error stored the Response,
\* with the seven blocks answered before the failure and the comment posted
\* before it
C11_RetryStored ==
    /\ last.op = "create" /\ last.retry /\ last.held /\ ~last.payload
    /\ last.result = "redirect" /\ Len(store) = 1
    /\ DOMAIN store[1].responses = {StepKey(n) : n \in BlockSteps}
    /\ store[1].comments = <<"ok">>

\* C12 as claimed: every stored Response has exactly one of its GHE and
\* department references populated, the GHE under the broad-unit mode and
\* the department under the sector mode.
C12_ExactlyOneGroup ==
    \A i \in 1..Len(store) :
        IF assessment[store[i].campaign] = "SETOR"
        THEN store[i].department_id # None /\ store[i].ghe_id = None
        ELSE store[i].ghe_id # None /\ store[i].department_id = None

\* C12, amended: every stored Response, of the normal and of the recovery
\* path, has its department reference populated; its GHE reference is
\* populated too under the broad-unit mode and empty under the sector mode.
C12_GroupReferences ==
    \A i \in 1..Len(store) :
        /\ store[i].department_id # None
        /\ IF assessment[store[i].campaign] = "SETOR"
           THEN store[i].ghe_id = None /\ store[i].job_function_id # None
           ELSE store[i].ghe_id # None

\* a Response rebuilt from the client's payload is stored for a tenant of the
\* broad-unit mode, with both references
C12_RecoveredWithBothGroups ==
    /\ last.op = "create" /\ last.result = "redirect" /\ ~last.held /\ last.payload
    /\ assessment[last.camp] = "GHE"
    /\ Len(store) = 1
    /\ store[1].ghe_id = Some(4) /\ store[1].department_id = Some(5)

\* the Answer Scale: Never, Rarely, Sometimes, Often, Always, in this order
ScaleLabels == <<"Nunca", "Raramente", "As vezes", "Frequentemente", "Sempre">>

\* the score of a label of the scale: its place in it
ScaleScore(answer) ==
    CHOOSE s \in 1..Len(ScaleLabels) : answer = <<ScaleLabels[s]>>

OnScale(answer) == \E s \in 1..Len(ScaleLabels) : answer = <<ScaleLabels[s]>>

RECURSIVE ListTotals(_)
\* sum and count of the answers of a list that are on the scale
ListTotals(answers) ==
    IF answers = <<>> THEN [sum |-> 0, count |-> 0]
    ELSE LET rest == ListTotals(Tail(answers))
             answer == Head(answers).answer
         IN  IF OnScale(answer)
             THEN [sum |-> rest.sum + ScaleScore(answer), count |-> rest.count + 1]
             ELSE rest

RECURSIVE BlockTotals(_, _)
\* sum and count of the answers on the scale under a block's key, over the
\* responses
BlockTotals(rows, key) ==
    IF rows = <<>> THEN [sum |-> 0, count |-> 0]
    ELSE LET rest == BlockTotals(Tail(rows), key)
             mine == IF key \in DOMAIN Head(rows).responses
                     THEN ListTotals(Head(rows).responses[key])
                     ELSE [sum |-> 0, count |-> 0]
         IN  [sum |-> rest.sum + mine.sum, count |-> rest.count + mine.count]

\* no answer list of a block is longer than the block's list of questions
WithinCatalog(rows) ==
    \A r \in 1..Len(rows) : \A n \in BlockSteps :
        StepKey(n) \in DOMAIN rows[r].responses =>
            Len(rows[r].responses[StepKey(n)]) <= QuestionCount(n)

\* an aggregation ran and answered with its result
Aggregated == last.op \in {"report", "pdf", "metrics"} /\ last.out # NoData

CatalogPart(responses) ==
    [key \in DOMAIN responses \cap DOMAIN_BY_STEP |->
       SubSeq(responses[key], 1,
              IF Len(responses[key]) <= Len(STEP_QUESTIONS(key))
              THEN Len(responses[key]) ELSE Len(STEP_QUESTIONS(key)))]

\* the responses without their anomalous data
WithoutAnomalies(rows) ==
    [r \in 1..Len(rows) |-> [rows[r] EXCEPT !.responses = CatalogPart(@)]]

\* C14: in every aggregation run, the answers beyond the catalog's question
\* count of their block and the answers under keys that are no block change
\* no accumulator: overall, domain, question, group and group-question
\* accumulators are those of the same responses without that data.
C14_AnomaliesSkipped ==
    Aggregated =>
        LET rows == ResponsesOf(store, "c1")
        IN  last.out.totals =
              CASE last.op = "report" ->
                     ResultsTotals(WithoutAnomalies(rows), GroupIdField("c1"))
                [] last.op = "pdf" -> ResultsTotals(WithoutAnomalies(rows), "ghe_id")
                [] last.op = "metrics" ->
                     MetricsTotals(WithoutAnomalies(rows), GroupIdField("c1"))

\* the entries of an aggregation result, each as <<accumulator, avg,
\* percent>> with avg and percent in tenths
ReportEntries(out) ==
    LET acc == out.totals
        det == out.domain_details
    IN  {<<acc.overall, out.overall_avg, out.overall_percent>>}
        \cup {<<acc.domain_totals[k], out.domains[k].avg, out.domains[k].percent>> :
                k \in DOMAIN_BY_STEP}
        \cup {<<acc.domain_totals[k], det[k].avg, det[k].percent>> : k \in DOMAIN_BY_STEP}
        \cup UNION {{<<acc.question_totals[k][i], det[k].questions[i].avg,
                       det[k].questions[i].percent>> : i \in DOMAIN det[k].questions} :
                      k \in DOMAIN_BY_STEP}
        \cup UNION {{<<acc.group_totals[k][g], det[k].group_items[g].avg,
                       det[k].group_items[g].percent>> : g \in DOMAIN det[k].group_items} :
                      k \in DOMAIN_BY_STEP}
        \cup UNION {UNION {{<<acc.group_question_totals[k][g][i],
                              det[k].group_questions[g][i].avg,
                              det[k].group_questions[g][i].percent>> :
                                i \in DOMAIN det[k].group_questions[g]} :
                             g \in DOMAIN det[k].group_questions} :
                      k \in DOMAIN_BY_STEP}

MetricsEntries(out) ==
    LET acc == out.totals
    IN  {<<acc.overall, out.overall_avg, out.overall_percent>>}
        \cup {<<acc.domain_totals[k], out.domains[k].avg, out.domains[k].percent>> :
                k \in DOMAIN_BY_STEP}
        \cup {<<acc.group_totals[g], out.groups[g].avg, out.groups[g].percent>> :
                g \in DOMAIN out.groups}
        \cup {<<acc.question_totals[k], out.questions[k].avg, out.questions[k].percent>> :
                k \in DOMAIN out.questions}

Entries == IF last.op = "metrics" THEN MetricsEntries(last.out) ELSE ReportEntries(last.out)

\* C15 as claimed: in every entry of an aggregation result whose accumulator
\* has count > 0, the reported percent is round(avg / 5 * 100, 1) of the
\* reported avg: in tenths, twenty times the reported avg.
C15_PercentOfReportedAvg ==
    Aggregated =>
        \A e \in Entries : e[1].count > 0 => e[3] = 20 * e[2]

\* tenth t is a nearest tenth of num / den, and the even one of two nearest
NearestTenth(t, num, den) ==
    LET twice == 2 * (10 * num - t * den)
    IN  /\ twice <= den /\ -twice <= den
        /\ (twice = den \/ -twice = den) => t % 2 = 0

\* C15, amended: in every entry of an aggregation result whose accumulator
\* has count > 0 (then count <= sum <= 5 * count), the reported avg is
\* sum / count rounded to one decimal and the reported percent is
\* (sum / count) / 5 * 100 rounded to one decimal: the percent comes from the
\* average before rounding, not from the reported avg.
C15_PercentOfExactAvg ==
    Aggregated =>
        \A e \in Entries : e[1].count > 0 =>
            /\ e[1].count <= e[1].sum /\ e[1].sum <= 5 * e[1].count
            /\ NearestTenth(e[2], e[1].sum, e[1].count)
            /\ NearestTenth(e[3], 20 * e[1].sum, e[1].count)

\* the on-screen report gives the domain with sum 17 and count 6 the avg 2.8
\* and the percent 56.7
C15_AvgAndPercentRoundedApart ==
    /\ last.op = "report" /\ last.out # NoData
    /\ last.out.totals.domain_totals["step2"] = [sum |-> 17, count |-> 6]
    /\ last.out.domains["step2"] = [avg |-> 28, percent |-> 567]

\* the zone of a percent and the label of an average, given as fractions,
\* as the two scales define them
ZoneOf(num, den) ==
    CASE num >= 75 * den -> "BOM"
      [] num < 75 * den /\ num >= 40 * den -> "ATENCAO"
      [] num < 40 * den -> "RUIM"

LabelOf(num, den) ==
    CASE num >= 4 * den -> "Adequado"
      [] num < 4 * den /\ num >= 3 * den -> "Moderado"
      [] num < 3 * den -> "Critico"

\* the question entries of a report, each as <<accumulator, zone>>
ZonedEntries(out) ==
    LET acc == out.totals
        det == out.domain_details
    IN  UNION {{<<acc.question_totals[k][i], det[k].questions[i].zone>> :
                  i \in DOMAIN det[k].questions} : k \in DOMAIN_BY_STEP}
        \cup UNION {UNION {{<<acc.group_question_totals[k][g][i],
                              det[k].group_questions[g][i].zone>> :
                                i \in DOMAIN det[k].group_questions[g]} :
                             g \in DOMAIN det[k].group_questions} :
                      k \in DOMAIN_BY_STEP}

\* C16: the percentage zone is Good from 75, Attention from 40 and below 75,
\* Poor below 40 (39.9, 40.0, 74.9, 75.0 give Poor, Attention, Attention,
\* Good); the label of an average is Adequate from 4, Moderate from 3 and
\* below 4, Critical below 3 (2.99, 3.0, 3.99, 4.0 give Critical, Moderate,
\* Moderate, Adequate); and in every aggregation result an entry whose
\* accumulator has count = 0 is labelled No data, any other by its scale.
C16_ClassifierBoundaries ==
    /\ <<zone_label(399, 10), zone_label(400, 10), zone_label(749, 10), zone_label(750, 10)>>
         = <<"RUIM", "ATENCAO", "ATENCAO", "BOM">>
    /\ <<score_label(299, 100), score_label(300, 100), score_label(399, 100),
         score_label(400, 100)>> = <<"Critico", "Moderado", "Moderado", "Adequado">>
    /\ Aggregated =>
         LET overall == last.out.totals.overall
         IN  /\ last.out.overall_label =
                  IF overall.count = 0 THEN "Sem dados"
                  ELSE LabelOf(overall.sum, overall.count)
             /\ last.op # "metrics" =>
                  \A e \in ZonedEntries(last.out) :
                      e[2] = IF e[1].count = 0 THEN "Sem dados"
                             ELSE ZoneOf(20 * e[1].sum, e[1].count)

\* a report holds a question at exactly 40 percent in the Attention zone, a
\* question without answers labelled No data, and an overall average of
\* exactly 3 labelled Moderate
C16_OnTheBoundaries ==
    /\ last.op = "report" /\ last.out # NoData
    /\ last.out.domain_details["step2"].questions[1].percent = 400
    /\ last.out.domain_details["step2"].questions[1].zone = "ATENCAO"
    /\ last.out.domain_details["step2"].questions[3].zone = "Sem dados"
    /\ last.out.totals.overall.sum = 3 * last.out.totals.overall.count
    /\ last.out.overall_label = "Moderado"

\* the parts of an aggregation result that are not keyed by group
Ungrouped(op, out) ==
    IF op = "metrics"
    THEN [overall |-> <<out.totals.overall, out.overall_avg, out.overall_percent,
                        out.overall_label>>,
          domains |-> <<out.totals.domain_totals, out.domains>>,
          questions |-> <<out.totals.question_totals, out.questions>>]
    ELSE [overall |-> <<out.totals.overall, out.overall_avg, out.overall_percent,
                        out.overall_label>>,
          domains |-> <<out.totals.domain_totals, out.domains,
                        [k \in DOMAIN_BY_STEP |->
                           <<out.domain_details[k].avg, out.domain_details[k].percent>>]>>,
          questions |-> <<out.totals.question_totals,
                          [k \in DOMAIN_BY_STEP |-> out.domain_details[k].questions]>>]

\* the same aggregation of the same responses under each grouping mode
UnderMode(op, field) ==
    IF op = "metrics"
    THEN MetricsOf(ResponsesOf(store, "c1"), field)
    ELSE build_results(ResponsesOf(store, "c1"),
                       standard_actions(plans[campaign["c1"].company]), field)

\* C17: the overall, per-domain and per-question sums, counts, averages and
\* percents of an aggregation are those the same aggregation of the same
\* Responses gives under the broad-unit mode and under the sector mode.
C17_ModeSwitchKeepsTotals ==
    (Aggregated /\ last.op # "pdf") =>
        /\ last.out = UnderMode(last.op, GroupIdField("c1"))
        /\ Ungrouped(last.op, last.out) = Ungrouped(last.op, UnderMode(last.op, "ghe_id"))
        /\ Ungrouped(last.op, last.out) =
              Ungrouped(last.op, UnderMode(last.op, "department_id"))

\* a report of the sector mode whose breakdown of a domain by group is not
\* the one the broad-unit mode gives: departments 5 and 7 against GHE 4
C17_BreakdownsDiffer ==
    /\ last.op = "report" /\ last.out # NoData /\ assessment["c1"] = "SETOR"
    /\ DOMAIN last.out.domain_details["step2"].group_items = {5, 7}
    /\ DOMAIN UnderMode("report", "ghe_id").domain_details["step2"].group_items = {4}
    /\ \E r \in 1..Len(store) : store[r].ghe_id = None

\* C18: every aggregation entry point keys its group breakdowns by the
\* field of the tenant's grouping mode, the department id in sector mode and
\* the GHE id in broad-unit mode: the on-screen report, the PDF report and
\* the campaign metrics each give the result of their aggregation under
\* that field, so the PDF report gives the on-screen report's breakdown.
C18_EveryReportUsesMode ==
    Aggregated => last.out = UnderMode(last.op, GroupIdField("c1"))

RECURSIVE QuestionsBefore(_)
\* the number of questions of the blocks before block n
QuestionsBefore(n) ==
    IF n = 2 THEN 0 ELSE QuestionsBefore(n - 1) + QuestionCount(n - 1)

\* the catalog positions, i counting from 0
CatalogPositions ==
    UNION {{<<n, i>> : i \in 0..(Len(STEP_QUESTIONS(StepKey(n))) - 1)} : n \in BlockSteps}

\* the global number of a catalog position
NumberOf(pos) == STEP_OFFSETS(StepKey(pos[1])) + pos[2] + 1

\* C19: the number of catalog position (domain, i) is the domain's offset
\* + i + 1; a domain's offset is the number of questions of the domains
\* before it, so the numbers are pairwise distinct and cover 1..35; and the
\* report and the metrics give the question at a position this number.
C19_GlobalNumbering ==
    /\ \A n \in BlockSteps : STEP_OFFSETS(StepKey(n)) = QuestionsBefore(n)
    /\ \A p, q \in CatalogPositions : NumberOf(p) = NumberOf(q) => p = q
    /\ {NumberOf(p) : p \in CatalogPositions} = 1..35
    /\ Aggregated =>
         IF last.op = "metrics"
         THEN \A k \in DOMAIN last.out.questions :
                 /\ last.out.questions[k].question_number = k[1]
                 /\ \E p \in CatalogPositions :
                       /\ k[3] = StepKey(p[1])
                       /\ k[2] = STEP_QUESTIONS(k[3])[p[2] + 1]
                       /\ k[1] = NumberOf(p)
         ELSE \A p \in CatalogPositions :
                 LET det == last.out.domain_details[StepKey(p[1])]
                 IN  /\ det.questions[p[2] + 1].question_number = NumberOf(p)
                     /\ \A g \in DOMAIN det.group_questions :
                           det.group_questions[g][p[2] + 1].question_number = NumberOf(p)

\* the metrics number the first question of step3 as 9, next after the eight
\* of step2
C19_FirstOfSecondDomain ==
    /\ last.op = "metrics" /\ last.out # NoData
    /\ \E k \in DOMAIN last.out.questions :
          k = <<9, STEP_QUESTIONS("step3")[1], "step3">>

\* the groups whose Responses gave a scored answer to an aggregation, under
\* a key when one is given
Contributors(rows, field, keys, bounded) ==
    {g \in UNION {GroupId(rows[r], field) : r \in 1..Len(rows)} :
        g # 0 /\ \E r \in 1..Len(rows) : \E key \in keys \cap DOMAIN rows[r].responses :
            /\ GroupId(rows[r], field) = {g}
            /\ \E i \in 1..Len(rows[r].responses[key]) :
                  /\ OnScale(rows[r].responses[key][i].answer)
                  /\ bounded => i <= Len(STEP_QUESTIONS(key))}

\* C20: in every aggregation result every catalog domain and every catalog
\* question appears once, with average 0, percent 0 and the no-data label
\* when its accumulator has count = 0, while a group appears in a group
\* breakdown exactly when a Response carrying its id gave it a scored answer.
C20_NothingOmitted ==
    Aggregated =>
        LET rows == ResponsesOf(store, "c1")
            out == last.out
        IN  IF last.op = "metrics"
            THEN /\ DOMAIN out.domains = DOMAIN_BY_STEP
                 /\ \A p \in CatalogPositions :
                       \E k \in DOMAIN out.questions : k[1] = NumberOf(p)
                 /\ DOMAIN out.groups =
                       Contributors(rows, GroupIdField("c1"), DOMAIN_BY_STEP, TRUE)
            ELSE /\ DOMAIN out.domains = DOMAIN_BY_STEP
                 /\ DOMAIN out.domain_details = DOMAIN_BY_STEP
                 /\ \A key \in DOMAIN_BY_STEP :
                       /\ DOMAIN out.domain_details[key].questions
                            = 1..Len(STEP_QUESTIONS(key))
                       /\ out.totals.domain_totals[key].count = 0 =>
                             out.domains[key] = [avg |-> 0, percent |-> 0]
                       /\ \A i \in 1..Len(STEP_QUESTIONS(key)) :
                             out.totals.question_totals[key][i].count = 0 =>
                                /\ out.domain_details[key].questions[i].avg = 0
                                /\ out.domain_details[key].questions[i].percent = 0
                                /\ out.domain_details[key].questions[i].zone = "Sem dados"
                       /\ DOMAIN out.domain_details[key].group_items =
                             Contributors(rows, IF last.op = "pdf" THEN "ghe_id"
                                                ELSE GroupIdField("c1"), {key}, FALSE)

\* ------------------------------------------------------ the comparison

\* the last request compared two campaigns
Compared == last.op = "compare" /\ last.result = "comparison"

\* the one element of a Some(..)
The(opt) == CHOOSE x \in opt : TRUE

\* the rows of a comparison's list next to the items of A and of B they are
\* built of, each list keyed as the comparison keys it: <<rows, items of A,
\* items of B>> for domains, for groups and for questions
ComparedLists ==
    LET ma == The(last.out.metrics_a)
        mb == The(last.out.metrics_b)
        cmp == The(last.out.comparison)
        by_number(qs) == [n \in {k[1] : k \in DOMAIN qs} |->
                            qs[CHOOSE k \in DOMAIN qs : k[1] = n]]
    IN  <<<<cmp.domains, ma.domains, mb.domains>>,
          <<cmp.groups, ma.groups, mb.groups>>,
          <<cmp.questions, by_number(ma.questions), by_number(mb.questions)>>>>

\* C21: a comparison has one row per key of the union of A's and B's keys,
\* for domains (by label), groups (by name) and questions (by number); the
\* side that lacks the key is given avg 0 and percent 0, so a key only A has
\* gets b.percent 0 and delta = -a.percent, and a key only B has gets a
\* null relative change.
C21_UnionOfKeys ==
    Compared =>
        \A l \in 1..3 :
            LET rows == ComparedLists[l][1]
                in_a == ComparedLists[l][2]
                in_b == ComparedLists[l][3]
            IN  /\ DOMAIN rows = DOMAIN in_a \cup DOMAIN in_b
                /\ \A k \in DOMAIN rows :
                     /\ k \in DOMAIN in_a =>
                          /\ rows[k].a.avg = in_a[k].avg
                          /\ rows[k].a.percent = in_a[k].percent
                     /\ k \in DOMAIN in_b =>
                          /\ rows[k].b.avg = in_b[k].avg
                          /\ rows[k].b.percent = in_b[k].percent
                     /\ k \notin DOMAIN in_b =>
                          /\ rows[k].b.avg = 0 /\ rows[k].b.percent = 0
                          /\ rows[k].delta = 0 - in_a[k].percent
                     /\ k \notin DOMAIN in_a =>
                          /\ rows[k].a.avg = 0 /\ rows[k].a.percent = 0
                          /\ rows[k].percent = None

\* a comparison with a group only A has and a question only B has
C21_OneSidedKeys ==
    /\ Compared
    /\ LET ma == The(last.out.metrics_a)
           mb == The(last.out.metrics_b)
           cmp == The(last.out.comparison)
       IN  /\ \E g \in DOMAIN cmp.groups :
                g \notin DOMAIN mb.groups /\ cmp.groups[g].delta < 0
           /\ \E n \in DOMAIN cmp.questions :
                /\ n \notin {k[1] : k \in DOMAIN ma.questions}
                /\ cmp.questions[n].b.percent > 0

\* the rows of the three lists of a comparison, as <<a.percent, b.percent,
\* delta, relative change>>, all in tenths
ComparedRowValues ==
    UNION {{<<ComparedLists[l][1][k].a.percent, ComparedLists[l][1][k].b.percent,
              ComparedLists[l][1][k].delta, ComparedLists[l][1][k].percent>> :
               k \in DOMAIN ComparedLists[l][1]} : l \in 1..3}

\* tenth t is one of the tenths nearest to num / den, for den > 0
RoundedToTenth(t, num, den) ==
    /\ 2 * (10 * num - t * den) <= den
    /\ 2 * (t * den - 10 * num) <= den

\* delta and relative change r (None, or Some of a value in units of
\* 1 / unit) are those of the percents a and b in tenths: delta is b - a,
\* r is null when a is 0 and else (b - a) * 100 / a rounded to one decimal
DeltaOf(a, b, delta_tenths, r, unit) ==
    /\ delta_tenths = b - a
    /\ a = 0 => r = None
    /\ a # 0 => /\ r # None
                /\ (10 * The(r)) % unit = 0
                /\ RoundedToTenth((10 * The(r)) \div unit, (b - a) * 100, a)

\* C22: for every comparable dimension, the overall one included,
\* delta = B.percent - A.percent on the reported percents, nothing cut off,
\* and the relative change is null when A.percent is 0 and else
\* round(delta * 100 / A.percent, 1).
C22_DeltaOfReportedPercents ==
    Compared =>
        LET ma == The(last.out.metrics_a)
            mb == The(last.out.metrics_b)
            overall == The(last.out.comparison).overall_percent
        IN  /\ \A v \in ComparedRowValues : DeltaOf(v[1], v[2], v[3], v[4], 10)
            /\ DeltaOf(ma.overall_percent, mb.overall_percent,
                       10 * overall.delta, overall.percent, 100)

\* the campaigns the last request computed aggregation results of
ResultsComputedOf ==
    CASE last.op \in {"report", "pdf"} ->
           IF last.out # NoData THEN {last.camp} ELSE {}
      [] last.op = "compare" ->
           (IF last.out.metrics_a # None \/ last.out.comparison # None THEN last.out.a ELSE {})
           \cup (IF last.out.metrics_b # None \/ last.out.comparison # None
                 THEN last.out.b ELSE {})
      [] OTHER -> {}

\* C23: the on-screen report, the PDF report and the comparison compute
\* results only of campaigns whose status is Finished.
C23_ResultsOfFinishedOnly ==
    \A c \in ResultsComputedOf : status[c] = FINISHED

\* a comparison of an active campaign that has Responses with a finished
\* one computes nothing
C23_UnfinishedRefused ==
    /\ last.op = "compare" /\ last.camp = "c1"
    /\ status["c1"] = ACTIVE /\ status["c2"] = FINISHED
    /\ \E i \in 1..Len(store) : store[i].campaign = "c1"
    /\ last.out.a = None /\ last.out.b = Some("c2")
    /\ last.result = "no-comparison" /\ last.out.comparison = None

\* --------------------------------------------------- the campaign's frame

\* C24: once a campaign has a Response, an update of it changes at most its
\* status: its title, start date, end date and company stay as they were.
C24_OnlyStatusChanges ==
    [][(/\ last'.op = "update"
        /\ \E i \in 1..Len(store) : store[i].campaign = last'.camp)
       => campaign'[last'.camp] = campaign[last'.camp]]_vars

\* ------------------------------------------------ the recommended actions

\* the question and group-question entries of a report
QuestionEntries(out) ==
    UNION {{out.domain_details[k].questions[i] : i \in DOMAIN out.domain_details[k].questions}
           \cup UNION {{out.domain_details[k].group_questions[g][i] :
                           i \in DOMAIN out.domain_details[k].group_questions[g]} :
                         g \in DOMAIN out.domain_details[k].group_questions} :
             k \in DOMAIN_BY_STEP}

\* the last request was a report that was computed
Reported == last.op \in {"report", "pdf"} /\ last.result = "report"

\* C25: every question and group-question entry of a report carries the
\* action list of the active Standard Action Plan row of the campaign's
\* company for the entry's question number, and the empty list when there
\* is none, whatever the entry's average, percent, zone and count and the
\* row's trigger threshold.
C25_ActionsAttached ==
    Reported =>
        \A e \in QuestionEntries(last.out) :
            LET rows == {row \in plans[campaign[last.camp].company] :
                            row.is_active /\ row.question_number = e.question_number}
            IN  /\ rows = {} => e.actions = <<>>
                /\ \A row \in rows : e.actions = row.actions

\* a report with actions on a question nobody answered and on a group's
\* question whose average is not below the row's threshold, and with none
\* for a question whose row is inactive
C25_AttachedAboveThreshold ==
    /\ Reported
    /\ \E e \in QuestionEntries(last.out) :
          e.question_number = 9 /\ e.zone = "Sem dados" /\ e.actions = <<"medir">>
    /\ \E g \in DOMAIN last.out.domain_details["step2"].group_questions :
          LET e == last.out.domain_details["step2"].group_questions[g][1]
          IN  e.avg = 50 /\ e.zone = "BOM" /\ e.actions = <<"treinar", "medir">>
    /\ \E e \in QuestionEntries(last.out) :
          /\ e.question_number = 2 /\ e.actions = <<>>
          /\ \E row \in plans["k1"] : row.question_number = 2 /\ ~row.is_active

\* ------------------------------------------- finishing against a commit

\* C26: while a campaign's status is Finished its Responses do not grow,
\* however the update that finished it is interleaved with step-9 requests
\* that passed the status check before it.
C26_NoGrowthOnceFinished ==
    [][status["c1"] = FINISHED =>
         ResponsesOf(store', "c1") = ResponsesOf(store, "c1")]_vars

\* ------------------------------------------------- the labels recorded

\* the answers of an answer map
AnswersOf(responses) ==
    UNION {{responses[k][i].answer : i \in 1..Len(responses[k])} : k \in DOMAIN responses}

\* C27: every answer a block step wrote into an in-progress state, and so
\* every answer of a Response committed from it, is one of the five labels
\* of the scale.
C27_ScaleLabelsOnly ==
    /\ \A s \in Sessions : \A c \in DOMAIN session[s] :
          session[s][c] # NoData =>
              \A answer \in AnswersOf(session[s][c].responses) : OnScale(answer)
    /\ \A i \in 1..Len(store) :
          \A answer \in AnswersOf(store[i].responses) : OnScale(answer)

\* ----------------------------------------- labels and reported values

\* C28 as claimed: the zone of a question entry with count > 0 is the zone
\* of the percent reported in it, and the overall label is the label of the
\* overall average reported, both of one decimal.
C28_LabelsOfReportedValues ==
    /\ last.op = "question" =>
          last.out.entry.zone = ZoneOf(last.out.entry.percent, 10)
    /\ last.op = "overall" =>
          last.out.overall_label = LabelOf(last.out.overall_avg, 10)

\* C28, amended: the zone and the overall label are those of the values
\* before rounding.  They are the zone and the label of the reported values
\* except when rounding lifts the value onto a lower bound it is below: a
\* percent reported as 75.0 or 40.0 that is below it has the zone under the
\* bound, and an average reported as 4.0 or 3.0 that is below it has the
\* label under the bound.
C28_LabelsOfExactValues ==
    /\ last.op = "question" =>
          LET t == last.out.totals
              e == last.out.entry
          IN  e.zone =
                IF e.percent = 750 /\ 20 * t.sum < 75 * t.count THEN "ATENCAO"
                ELSE IF e.percent = 400 /\ 20 * t.sum < 40 * t.count THEN "RUIM"
                ELSE ZoneOf(e.percent, 10)
    /\ last.op = "overall" =>
          LET t == last.out.totals
          IN  last.out.overall_label =
                IF last.out.overall_avg = 40 /\ t.sum < 4 * t.count THEN "Moderado"
                ELSE IF last.out.overall_avg = 30 /\ t.sum < 3 * t.count THEN "Critico"
                ELSE LabelOf(last.out.overall_avg, 10)

\* a question of 103 answers that sum to 386 is reported with 75.0 percent
\* in the zone under 75
C28_ReportedOnTheBoundBelowIt ==
    /\ last.op = "question"
    /\ last.out.totals = [sum |-> 386, count |-> 103]
    /\ last.out.entry.percent = 750
    /\ last.out.entry.zone = "ATENCAO"

\* ------------------------------------------------- the two aggregators

\* C29: build_campaign_metrics and _build_results report, of the same
\* Responses of a campaign, the same overall average, percent and label,
\* the same average and percent of every domain, and the same average and
\* percent of every question with a scored answer.
C29_AggregatorsAgree ==
    Aggregated =>
        LET rows == ResponsesOf(store, "c1")
            m == build_campaign_metrics(rows, "c1")
            r == build_results(rows, standard_actions(plans[campaign["c1"].company]),
                               GroupIdField("c1"))
        IN  /\ m.overall_avg = r.overall_avg
            /\ m.overall_percent = r.overall_percent
            /\ m.overall_label = r.overall_label
            /\ \A key \in DOMAIN_BY_STEP :
                  /\ m.domains[key].avg = r.domains[key].avg
                  /\ m.domains[key].percent = r.domains[key].percent
            /\ \A k \in DOMAIN m.questions :
                  \E i \in DOMAIN r.domain_details[k[3]].questions :
                      LET q == r.domain_details[k[3]].questions[i]
                      IN  /\ q.question_number = k[1]
                          /\ q.avg = m.questions[k].avg
                          /\ q.percent = m.questions[k].percent

\* ------------------------------------- the campaigns of one session

\* C30: a request on a campaign leaves the in-progress state the session
\* holds for every other campaign as it was, and a commit that succeeds
\* removes the state of its campaign and of no other.
C30_IsolatedPerCampaign ==
    [][\A s \in Sessions :
          /\ \A c \in DOMAIN session[s] :
                c # last'.camp => session'[s][c] = session[s][c]
          /\ (last'.sess = s /\ last'.op = "create" /\ last'.result = "redirect")
                => session'[s][last'.camp] = NoData]_vars

\* a commit on one campaign succeeded while the session held the
\* in-progress state of the other, which it still holds
C30_CommitBesideOpenState ==
    /\ last.op = "create" /\ last.result = "redirect" /\ last.camp = "c1"
    /\ session["s1"]["c1"] = NoData
    /\ session["s1"]["c2"] # NoData
    /\ "step2" \in DOMAIN session["s1"]["c2"].responses

====
